---- MODULE Spec2Model ----
(***************************************************************************)
(* A model of physics-eater: the primitive codec (src/src/util.rs), the    *)
(* container readers and chunk lookup (src/src/wad.rs), the record schema  *)
(* decoders of both generations (src/src/physics/m1.rs, m2.rs), the name   *)
(* databases (src/src/namedb.rs) and the two convert_physics operations.   *)
(*                                                                         *)
(* Representation.                                                         *)
(*   - A byte is a natural in 0..255; a byte source (a slice, a Cursor or  *)
(*     a File) is a record [data, pos]: the bytes and the read position.   *)
(*   - A u16 is a natural in 0..65535.  A u32 is a pair <<hi, lo>> of      *)
(*     16-bit halves (hi = the two bytes read first), so that no 32-bit    *)
(*     word leaves the range of the integers of TLC.                       *)
(*   - Option<T>: None is <<>>, Some(v) is <<v>>.                          *)
(*   - anyhow::Result<T>: [ok |-> TRUE, val |-> v] or                      *)
(*     [ok |-> FALSE, err |-> e]; a reader's Ok also carries the advanced  *)
(*     byte source in the field input.                                     *)
(*   - An f32 is a pair <<m, e>> standing for m * 2^e, with m odd or       *)
(*     <<0, 0>>; every real the codec produces is such a dyadic number.    *)
(*   - serde_json::Value: [String |-> s] or [Number |-> n].                *)
(***************************************************************************)
EXTENDS Integers, Sequences, FiniteSets, TLC

VARIABLES
    input,        \* the byte source the operation reads from
    namedbs,      \* the name databases (NameDbs)
    call,         \* the operation invoked and its other arguments
    pc,           \* the position reached inside the operation
    chunks,       \* the chunk list read_m1_chunks returned
    physics_wad,  \* the Wad read_wad returned
    definitions,  \* the definitions decoded so far
    result,       \* the value the operation returned
    stdout        \* what was handed to the serializer

vars == <<input, namedbs, call, pc, chunks, physics_wad, definitions, result,
          stdout>>

(***************************************************************************)
(* Option, Result, byte sources                                            *)
(***************************************************************************)
None == <<>>
Some(v) == <<v>>
IsSome(o) == o # <<>>

Ok(v) == [ok |-> TRUE, val |-> v]
Err(e) == [ok |-> FALSE, err |-> e]
\* What a reader returns on success: the value and the advanced byte source.
Rd(v, in) == [ok |-> TRUE, val |-> v, input |-> in]

Cursor(data) == [data |-> data, pos |-> 0]

\* The ? operator on a read v: the error is returned at once, and otherwise
\* F continues with the value read and the advanced byte source.
Try(v, F(_, _)) ==
    CHOOSE y \in {IF ~r.ok THEN r ELSE F(r.val, r.input) : r \in {v}} : TRUE

\* An error is a pair: what failed, and the detail the message names.
\* std::io::ErrorKind::UnexpectedEof, "failed to fill whole buffer":
IoError == Err(<<"UnexpectedEof", "">>)

\* Read::read_exact: n bytes from the read position, or an error when fewer
\* than n bytes remain.
read_exact(in, n) ==
    IF n > Len(in.data) - in.pos
    THEN IoError
    ELSE Rd(SubSeq(in.data, in.pos + 1, in.pos + n), [in EXCEPT !.pos = @ + n])

(***************************************************************************)
(* Bit arithmetic on u16 and u32                                           *)
(***************************************************************************)
RECURSIVE BitAnd(_, _)
BitAnd(a, b) ==
    IF a = 0 \/ b = 0 THEN 0
    ELSE (a % 2) * (b % 2) + 2 * BitAnd(a \div 2, b \div 2)

RECURSIVE Pow2(_)
Pow2(n) == IF n = 0 THEN 1 ELSE 2 * Pow2(n - 1)

Zero32 == <<0, 0>>
And32(x, y) == <<BitAnd(x[1], y[1]), BitAnd(x[2], y[2])>>
\* 1 << x for a u32 and x in 0..31
Shl32One(x) == IF x < 16 THEN <<0, Pow2(x)>> ELSE <<Pow2(x - 16), 0>>

u16_from_be_bytes(buf) == buf[1] * 256 + buf[2]
u32_from_be_bytes(buf) == <<buf[1] * 256 + buf[2], buf[3] * 256 + buf[4]>>

\* u16 as i16, u32 as i32: two's complement reinterpretation
AsI16(w) == IF w >= 32768 THEN w - 65536 ELSE w
AsI32(w) == AsI16(w[1]) * 65536 + w[2]

(***************************************************************************)
(* f32 values: m * 2^e                                                     *)
(***************************************************************************)
RECURSIVE Dyadic(_, _)
Dyadic(m, e) ==
    IF m = 0 THEN <<0, 0>>
    ELSE IF m % 2 = 0 THEN Dyadic(m \div 2, e + 1)
    ELSE <<m, e>>

\* The number of low bits an integer a >= 0 loses when it is stored with a
\* 24-bit significand.
RECURSIVE DropBits(_)
DropBits(a) == IF a < 16777216 THEN 0 ELSE 1 + DropBits(a \div 2)

\* `as f32` of a signed integer: exact up to 24 significant bits, and beyond
\* that rounded to the nearest representable value, ties to even.
IntAsF32(n) ==
    IF n = -2147483647 - 1 THEN <<-1, 31>>
    ELSE LET a == IF n < 0 THEN -n ELSE n
             s == IF n < 0 THEN -1 ELSE 1
             k == DropBits(a)
             q == Pow2(k)
             m == a \div q
             r == a % q
             up == (2 * r > q) \/ (2 * r = q /\ m % 2 = 1)
         IN  Dyadic(s * (IF up THEN m + 1 ELSE m), k)

\* x / 2^k and x * c for an f32 x; exact for every value the codec divides
\* or multiplies (no overflow, no underflow, at most 24 significant bits).
F32DivPow2(x, k) == IF x[1] = 0 THEN x ELSE <<x[1], x[2] - k>>
F32MulInt(x, c) == Dyadic(x[1] * c, x[2])

(***************************************************************************)
(* util.rs: the primitive codec                                            *)
(***************************************************************************)
read16(in) ==
    Try(read_exact(in, 2), LAMBDA buf, rest : Rd(u16_from_be_bytes(buf), rest))

read32(in) ==
    Try(read_exact(in, 4), LAMBDA buf, rest : Rd(u32_from_be_bytes(buf), rest))

read_fx_16_16(in) ==
    Try(read32(in), LAMBDA w, rest : Rd(F32DivPow2(IntAsF32(AsI32(w)), 16), rest))

\* read_fx_6_10 without the reinterpretation as i16.
read_fx_6_10_unsigned(in) ==
    Try(read16(in), LAMBDA w, rest : Rd(F32DivPow2(IntAsF32(w), 10), rest))

read_fx_6_10(in) ==
    Try(read16(in), LAMBDA w, rest : Rd(F32DivPow2(IntAsF32(AsI16(w)), 10), rest))

read_angle(in) ==
    Try(read16(in), LAMBDA w, rest :
        Rd(F32DivPow2(F32MulInt(IntAsF32(AsI16(w)), 360), 9), rest))

\* read_optional_16 with "absent" for the all-ones word only.
read_optional_16_sign_extended(in) ==
    Try(read16(in), LAMBDA ret, rest :
        IF ret = 65535 THEN Rd(None, rest) ELSE Rd(Some(ret), rest))

\* read_optional_16 with the zero word absent as well.
read_optional_16_zero_absent(in) ==
    Try(read16(in), LAMBDA ret, rest :
        IF ret = 0 \/ BitAnd(ret, 32768) # 0 THEN Rd(None, rest)
        ELSE Rd(Some(ret), rest))

read_optional_16(in) ==
    Try(read16(in), LAMBDA ret, rest :
        IF BitAnd(ret, 32768) # 0 THEN Rd(None, rest) ELSE Rd(Some(ret), rest))

read_optional_fx_6_10(in) ==
    Try(read_optional_16(in), LAMBDA o, rest :
        IF o = None THEN Rd(None, rest)
        ELSE Rd(Some(F32DivPow2(IntAsF32(AsI16(o[1])), 10)), rest))

\* read_optional_32 with the test on bit 31.
read_optional_32_top_bit(in) ==
    Try(read32(in), LAMBDA ret, rest :
        IF And32(ret, <<32768, 0>>) # Zero32 THEN Rd(None, rest)
        ELSE Rd(Some(ret), rest))

read_optional_32(in) ==
    Try(read32(in), LAMBDA ret, rest :
        IF And32(ret, <<0, 32768>>) # Zero32 THEN Rd(None, rest)
        ELSE Rd(Some(ret), rest))

\* read_generic_bitfield32 with the bits numbered from 1.
read_generic_bitfield32_from_one(in) ==
    Try(read32(in), LAMBDA ret, rest :
        Rd(SelectSeq([i \in 1..32 |-> i],
                     LAMBDA x : x < 32 /\ And32(ret, Shl32One(x)) # Zero32),
           rest))

read_generic_bitfield32(in) ==
    Try(read32(in), LAMBDA ret, rest :
        Rd(SelectSeq([i \in 1..32 |-> i - 1],
                     LAMBDA x : And32(ret, Shl32One(x)) # Zero32),
           rest))

(***************************************************************************)
(* namedb.rs: the name databases                                           *)
(***************************************************************************)
\* NameDb::default(): no names at all.
EmptyNameDb == [names |-> <<>>]

\* NameDbs::default(): every category empty except the weapon classes.
DefaultNameDbs ==
    [monster_class_names |-> EmptyNameDb,
     monster_names       |-> EmptyNameDb,
     projectile_names    |-> EmptyNameDb,
     weapon_names        |-> EmptyNameDb,
     item_names          |-> EmptyNameDb,
     effect_names        |-> EmptyNameDb,
     damage_type_names   |-> EmptyNameDb,
     collection_names    |-> EmptyNameDb,
     sound_names         |-> EmptyNameDb,
     weapon_class_names  |->
         [names |-> <<Some("melee"), Some("normal"), Some("dual function"),
                      Some("dual wield"), Some("multipurpose")>>]]

\* NameDb::identify taking the index for a 1-based line number.
identify_one_based(db, index) ==
    IF 1 <= index /\ index <= Len(db.names) /\ IsSome(db.names[index])
    THEN [String |-> db.names[index][1]]
    ELSE [Number |-> index]

\* NameDb::identify for an index of at most 31 bits (usize,
\* u16, and the bit numbers 0..31): names.get(index), 0-based.
identify(db, index) ==
    IF index < Len(db.names) /\ IsSome(db.names[index + 1])
    THEN [String |-> db.names[index + 1][1]]
    ELSE [Number |-> index]

\* NameDb::identify for a u32 index <<hi, lo>>.
identify32(db, index) ==
    IF index[1] = 0 /\ index[2] < Len(db.names) /\ IsSome(db.names[index[2] + 1])
    THEN [String |-> db.names[index[2] + 1][1]]
    ELSE [Number |-> index]

(***************************************************************************)
(* util.rs: decode_flags!                                                  *)
(***************************************************************************)
\* extract_flags!: one boolean per name.  The test mask starts at flagbit
\* and moves one bit to the left after every name (flagbit <<= 1), so the
\* i-th name (from 0) is tested with 1 << (bit + i), where 1 << bit is the
\* first mask; no flag list of the program is longer than its word.
extract_flags(flags, bit, names) ==
    [n \in {names[i] : i \in 1..Len(names)} |->
        And32(flags, Shl32One(bit + (CHOOSE i \in 1..Len(names) : names[i] = n) - 1))
            # Zero32]

\* decode_flags!: the flag word (a 16-bit word is widened to <<0, w>>) is
\* tested from flagbit = 1 on.
decode_flags(flags, names) == extract_flags(flags, 0, names)

(***************************************************************************)
(* physics/m1.rs, physics/m2.rs: the field sequences of the record         *)
(* decoders.  Each read function is the list of its reads in source order: *)
(* <<field, reader, argument>>, the argument being the name database the   *)
(* value is resolved through ("" for none), the flag names of a            *)
(* decode_flags!, or the field a value is cloned from.                     *)
(***************************************************************************)
\* MonsterFlags::read: the flag names in declaration order (the same in
\* both generations)
MonsterFlagNames ==
    <<"omniscient", "flies", "is_alien", "major", "minor", "cannot_skip",
      "floats", "cannot_attack", "uses_sniper_ledges", "is_invisible",
      "is_subtly_invisible", "kamikaze", "berserker", "enlarged",
      "delayed_hard_death", "fires_symmetrically", "nuclear_hard_death",
      "cannot_fire_backwards", "can_die_in_flames",
      "waits_with_clear_shot", "tiny", "attacks_immediately",
      "not_afraid_of_water", "not_afraid_of_sewage", "not_afraid_of_lava",
      "not_afraid_of_goo", "can_teleport_under_media",
      "chooses_weapons_randomly">>

\* DamageDefinition::read (the same in both generations)
DamageDefinitionFields ==
    << <<"damage_type", "read_optional_16", "damage_type_names">>,
       <<"flags", "decode_flags16", <<"alien_damage">>>>,
       <<"base", "read16_as_i16", "">>,
       <<"random", "read16_as_i16", "">>,
       <<"scale", "read_fx_16_16", "">> >>

\* AttackDefinition::read (the same in both generations)
AttackDefinitionFields ==
    << <<"projectile_type", "read_optional_16", "projectile_names">>,
       <<"repetitions", "read_optional_16", "">>,
       <<"error", "read_angle", "">>,
       <<"range", "read_world_distance", "">>,
       <<"attack_sequence", "read_optional_16", "">>,
       <<"dx", "read_world_distance", "">>,
       <<"dy", "read_world_distance", "">>,
       <<"dz", "read_world_distance", "">> >>

\* m1::MonsterDefinition::read
M1MonsterDefinitionFields ==
    << <<"collection", "collection_and_clut", "collection_names">>,
       <<"name", "identify_index", "monster_names">>,
       <<"vitality", "read_optional_16", "">>,
       <<"immunities", "read_generic_bitfield32", "damage_type_names">>,
       <<"weaknesses", "read_generic_bitfield32", "damage_type_names">>,
       <<"flags", "decode_flags32", MonsterFlagNames>>,
       <<"class", "read_optional_32", "monster_class_names">>,
       <<"friends", "read_generic_bitfield32", "monster_class_names">>,
       <<"enemies", "read_generic_bitfield32", "monster_class_names">>,
       <<"activation_sound", "read_optional_16", "sound_names">>,
       <<"conversation_sound", "read_optional_16", "sound_names">>,
       <<"flaming_sound", "read_optional_16", "sound_names">>,
       <<"random_sound", "read_optional_16", "sound_names">>,
       <<"random_sound_mask", "read_optional_16", "">>,
       <<"carrying_item_type", "read_optional_16", "item_names">>,
       <<"radius", "read_world_distance", "">>,
       <<"height", "read_world_distance", "">>,
       <<"preferred_hover_height", "read_world_distance", "">>,
       <<"minimum_ledge_delta", "read_world_distance", "">>,
       <<"maximum_ledge_delta", "read_world_distance", "">>,
       <<"external_velocity_scale", "read_fx_16_16", "">>,
       <<"impact_effect", "read_optional_16", "effect_names">>,
       <<"melee_impact_effect", "read_optional_16", "effect_names">>,
       <<"half_visual_arc", "read_angle", "">>,
       <<"half_vertical_visual_arc", "read_angle", "">>,
       <<"visual_range", "read_world_distance", "">>,
       <<"dark_visual_range", "read_world_distance", "">>,
       <<"intelligence", "read_optional_16", "">>,
       <<"speed", "read_world_speed", "">>,
       <<"gravity", "read_world_accel", "">>,
       <<"terminal_velocity", "read_world_speed", "">>,
       <<"door_retry_mask", "read_optional_16", "">>,
       <<"shrapnel_radius", "read_optional_fx_6_10", "">>,
       <<"shrapnel_damage", "DamageDefinition::read", "">>,
       <<"hit_sequence", "read_optional_16", "">>,
       <<"hard_dying_sequence", "read_optional_16", "">>,
       <<"soft_dying_sequence", "read_optional_16", "">>,
       <<"hard_dead_sequence", "read_optional_16", "">>,
       <<"soft_dead_sequence", "read_optional_16", "">>,
       <<"stationary_sequence", "read_optional_16", "">>,
       <<"moving_sequence", "read_optional_16", "">>,
       <<"attack_frequency", "read_optional_16", "">>,
       <<"melee_attack", "AttackDefinition::read", "">>,
       <<"ranged_attack", "AttackDefinition::read", "">> >>

\* m1::EffectDefinition::read
M1EffectDefinitionFields ==
    << <<"collection", "collection_and_clut", "collection_names">>,
       <<"name", "identify_index", "effect_names">>,
       <<"sequence", "read_optional_16", "">>,
       <<"flags", "decode_flags16",
          <<"end_when_animation_loops", "end_when_transfer_animation_loops",
            "sound_only", "make_twin_visible">>>> >>

\* m1::ProjectileDefinition::read
M1ProjectileDefinitionFields ==
    << <<"collection", "collection_and_clut", "collection_names">>,
       <<"name", "identify_index", "projectile_names">>,
       <<"sequence", "read_optional_16", "">>,
       <<"detonation_effect", "read_optional_16", "effect_names">>,
       <<"contrail_effect", "read_optional_16", "effect_names">>,
       <<"ticks_between_contrails", "read_optional_16", "effect_names">>,
       <<"maximum_contrails", "read_optional_16", "effect_names">>,
       <<"radius", "read_world_distance", "">>,
       <<"area_of_effect", "read_world_distance", "">>,
       <<"damage", "DamageDefinition::read", "">>,
       <<"flags", "decode_flags16",
          <<"guided", "stop_when_animation_loops", "persistent", "alien",
            "affected_by_gravity", "no_horizontal_error",
            "no_vertical_error", "can_toggle_control_panels",
            "positive_vertical_error", "melee", "persistent_and_virulent",
            "usually_pass_transparent_side",
            "sometimes_pass_transparent_side",
            "doubly_affected_by_gravity">>>>,
       <<"speed", "read_world_speed", "">>,
       <<"maximum_range", "read_world_distance", "">>,
       <<"flyby_sound", "read_optional_16", "sound_names">> >>

\* m1::WeaponDefinition::read
M1WeaponDefinitionFields ==
    << <<"name", "identify_index", "weapon_names">>,
       <<"item_type", "read_optional_16", "item_names">>,
       <<"weapon_class", "read_optional_16", "weapon_class_names">>,
       <<"flags", "decode_flags16",
          <<"is_automatic", "unknown", "disappears_after_use">>>>,
       <<"triggers[0].ammunition_type", "read_optional_16", "item_names">>,
       <<"triggers[0].rounds_per_magazine", "read_optional_16", "">>,
       <<"triggers[1].ammunition_type", "read_optional_16", "item_names">>,
       <<"triggers[1].rounds_per_magazine", "read_optional_16", "">>,
       <<"firing_light_intensity", "read_fx_16_16", "">>,
       <<"firing_intensity_decay_ticks", "read_optional_16", "">>,
       <<"idle_height", "read_fx_16_16", "">>,
       <<"bob_amplitude", "read_fx_16_16", "">>,
       <<"kick_height", "read_fx_16_16", "">>,
       <<"reload_height", "read_fx_16_16", "">>,
       <<"idle_width", "read_fx_16_16", "">>,
       <<"horizontal_amplitude", "read_fx_16_16", "">>,
       <<"collection", "read_optional_16", "">>,
       <<"idle_sequence", "read_optional_16", "">>,
       <<"firing_sequence", "read_optional_16", "">>,
       <<"reloading_sequence", "read_optional_16", "">>,
       <<"_unused", "read16", "">>,
       <<"charging_sequence", "read_optional_16", "">>,
       <<"charged_sequence", "read_optional_16", "">>,
       <<"triggers[0].ticks_per_round", "read_optional_16", "">>,
       <<"triggers[1].ticks_per_round", "read_optional_16", "">>,
       <<"await_reload_ticks", "read_optional_16", "">>,
       <<"ready_ticks", "read_optional_16", "">>,
       <<"triggers[0].recovery_ticks", "read_optional_16", "">>,
       <<"triggers[1].recovery_ticks", "read_optional_16", "">>,
       <<"triggers[0].charging_ticks", "read_optional_16", "">>,
       <<"triggers[1].charging_ticks", "read_optional_16", "">>,
       <<"triggers[0].recoil_magnitude", "read_world_distance", "">>,
       <<"triggers[1].recoil_magnitude", "read_world_distance", "">>,
       <<"triggers[0].firing_sound", "read_optional_16", "sound_names">>,
       <<"triggers[1].firing_sound", "read_optional_16", "sound_names">>,
       <<"triggers[0].click_sound", "read_optional_16", "sound_names">>,
       <<"triggers[1].click_sound", "read_optional_16", "sound_names">>,
       <<"triggers[0].reloading_sound", "read_optional_16", "sound_names">>,
       <<"triggers[1].reloading_sound", "None", "">>,
       <<"triggers[0].charging_sound", "read_optional_16", "sound_names">>,
       <<"triggers[1].charging_sound", "clone", "triggers[0].charging_sound">>,
       <<"triggers[0].shell_casing_sound", "read_optional_16", "sound_names">>,
       <<"triggers[1].shell_casing_sound", "read_optional_16", "sound_names">>,
       <<"triggers[0].sound_activation_range", "read_world_distance", "">>,
       <<"triggers[1].sound_activation_range", "read_world_distance", "">>,
       <<"triggers[0].projectile_type", "read_optional_16", "projectile_names">>,
       <<"triggers[1].projectile_type", "read_optional_16", "projectile_names">>,
       <<"triggers[0].theta_error", "read_angle", "">>,
       <<"triggers[1].theta_error", "read_angle", "">>,
       <<"triggers[0].dx", "read_world_distance", "">>,
       <<"triggers[0].dz", "read_world_distance", "">>,
       <<"triggers[1].dx", "read_world_distance", "">>,
       <<"triggers[1].dz", "read_world_distance", "">>,
       <<"triggers[0].burst_count", "read_optional_16", "">>,
       <<"triggers[1].burst_count", "read_optional_16", "">>,
       <<"_unused2", "read16_discard", "">> >>

\* m1::PhysicsDefinition::read
M1PhysicsDefinitionFields ==
    << <<"maximum_forward_velocity", "read_fx_16_16", "">>,
       <<"maximum_backward_velocity", "read_fx_16_16", "">>,
       <<"maximum_perpendicular_velocity", "read_fx_16_16", "">>,
       <<"acceleration", "read_fx_16_16", "">>,
       <<"deceleration", "read_fx_16_16", "">>,
       <<"airborne_deceleration", "read_fx_16_16", "">>,
       <<"gravitational_acceleration", "read_fx_16_16", "">>,
       <<"climbing_acceleration", "read_fx_16_16", "">>,
       <<"terminal_velocity", "read_fx_16_16", "">>,
       <<"external_deceleration", "read_fx_16_16", "">>,
       <<"angular_acceleration", "read_fx_16_16", "">>,
       <<"angular_deceleration", "read_fx_16_16", "">>,
       <<"maximum_angular_velocity", "read_fx_16_16", "">>,
       <<"angular_recentering_velocity", "read_fx_16_16", "">>,
       <<"fast_angular_velocity", "read_fx_16_16", "">>,
       <<"fast_angular_maximum", "read_fx_16_16", "">>,
       <<"maximum_elevation", "read_fx_16_16", "">>,
       <<"external_angular_deceleration", "read_fx_16_16", "">>,
       <<"step_delta", "read_fx_16_16", "">>,
       <<"step_amplitude", "read_fx_16_16", "">>,
       <<"radius", "read_fx_16_16", "">>,
       <<"height", "read_fx_16_16", "">>,
       <<"dead_height", "read_fx_16_16", "">>,
       <<"camera_height", "read_fx_16_16", "">>,
       <<"half_camera_separation", "read_fx_16_16", "">> >>

\* m2::MonsterDefinition::read
M2MonsterDefinitionFields ==
    << <<"collection", "collection_and_clut", "collection_names">>,
       <<"name", "identify_index", "monster_names">>,
       <<"vitality", "read_optional_16", "">>,
       <<"immunities", "read_generic_bitfield32", "damage_type_names">>,
       <<"weaknesses", "read_generic_bitfield32", "damage_type_names">>,
       <<"flags", "decode_flags32", MonsterFlagNames>>,
       <<"class", "read_optional_32", "monster_class_names">>,
       <<"friends", "read_generic_bitfield32", "monster_class_names">>,
       <<"enemies", "read_generic_bitfield32", "monster_class_names">>,
       <<"sound_pitch", "read_fx_16_16", "">>,
       <<"activation_sound", "read_optional_16", "sound_names">>,
       <<"friendly_activation_sound", "read_optional_16", "sound_names">>,
       <<"clear_sound", "read_optional_16", "sound_names">>,
       <<"kill_sound", "read_optional_16", "sound_names">>,
       <<"apology_sound", "read_optional_16", "sound_names">>,
       <<"friendly_fire_sound", "read_optional_16", "sound_names">>,
       <<"flaming_sound", "read_optional_16", "sound_names">>,
       <<"random_sound", "read_optional_16", "sound_names">>,
       <<"random_sound_mask", "read_optional_16", "">>,
       <<"carrying_item_type", "read_optional_16", "item_names">>,
       <<"radius", "read_world_distance", "">>,
       <<"height", "read_world_distance", "">>,
       <<"preferred_hover_height", "read_world_distance", "">>,
       <<"minimum_ledge_delta", "read_world_distance", "">>,
       <<"maximum_ledge_delta", "read_world_distance", "">>,
       <<"external_velocity_scale", "read_fx_16_16", "">>,
       <<"impact_effect", "read_optional_16", "effect_names">>,
       <<"melee_impact_effect", "read_optional_16", "effect_names">>,
       <<"contrail_effect", "read_optional_16", "effect_names">>,
       <<"half_visual_arc", "read_angle", "">>,
       <<"half_vertical_visual_arc", "read_angle", "">>,
       <<"visual_range", "read_world_distance", "">>,
       <<"dark_visual_range", "read_world_distance", "">>,
       <<"intelligence", "read_optional_16", "">>,
       <<"speed", "read_world_speed", "">>,
       <<"gravity", "read_world_accel", "">>,
       <<"terminal_velocity", "read_world_speed", "">>,
       <<"door_retry_mask", "read_optional_16", "">>,
       <<"shrapnel_radius", "read_optional_fx_6_10", "">>,
       <<"shrapnel_damage", "DamageDefinition::read", "">>,
       <<"hit_sequence", "read_optional_16", "">>,
       <<"hard_dying_sequence", "read_optional_16", "">>,
       <<"soft_dying_sequence", "read_optional_16", "">>,
       <<"hard_dead_sequence", "read_optional_16", "">>,
       <<"soft_dead_sequence", "read_optional_16", "">>,
       <<"stationary_sequence", "read_optional_16", "">>,
       <<"moving_sequence", "read_optional_16", "">>,
       <<"teleport_in_sequence", "read_optional_16", "">>,
       <<"teleport_out_sequence", "read_optional_16", "">>,
       <<"attack_frequency", "read_optional_16", "">>,
       <<"melee_attack", "AttackDefinition::read", "">>,
       <<"ranged_attack", "AttackDefinition::read", "">> >>

\* m2::EffectDefinition::read
M2EffectDefinitionFields ==
    << <<"collection", "collection_and_clut", "collection_names">>,
       <<"name", "identify_index", "effect_names">>,
       <<"sequence", "read_optional_16", "">>,
       <<"sound_pitch", "read_fx_16_16", "">>,
       <<"flags", "decode_flags16",
          <<"end_when_animation_loops", "end_when_transfer_animation_loops",
            "sound_only", "make_twin_visible", "media_effect">>>>,
       <<"delay", "read_optional_16", "">>,
       <<"delay_sound", "read_optional_16", "sound_names">> >>

\* m2::ProjectileDefinition::read
M2ProjectileDefinitionFields ==
    << <<"collection", "collection_and_clut", "collection_names">>,
       <<"name", "identify_index", "projectile_names">>,
       <<"sequence", "read_optional_16", "">>,
       <<"detonation_effect", "read_optional_16", "effect_names">>,
       <<"media_detonation_effect", "read_optional_16", "effect_names">>,
       <<"contrail_effect", "read_optional_16", "effect_names">>,
       <<"ticks_between_contrails", "read_optional_16", "effect_names">>,
       <<"maximum_contrails", "read_optional_16", "effect_names">>,
       <<"media_projectile_promotion", "read_optional_16", "projectile_names">>,
       <<"radius", "read_world_distance", "">>,
       <<"area_of_effect", "read_world_distance", "">>,
       <<"damage", "DamageDefinition::read", "">>,
       <<"flags", "decode_flags32",
          <<"guided", "stop_when_animation_loops", "persistent", "alien",
            "affected_by_gravity", "no_horizontal_error",
            "no_vertical_error", "can_toggle_control_panels",
            "positive_vertical_error", "melee", "persistent_and_virulent",
            "usually_pass_transparent_side",
            "sometimes_pass_transparent_side", "doubly_affected_by_gravity",
            "rebounds_from_floor", "penetrates_media",
            "becomes_item_on_detonation", "bleeding_projectile",
            "horizontal_wander", "vertical_wander",
            "affected_by_half_gravity", "penetrates_media_boundary",
            "passes_through_objects">>>>,
       <<"speed", "read_world_speed", "">>,
       <<"maximum_range", "read_world_distance", "">>,
       <<"sound_pitch", "read_fx_16_16", "">>,
       <<"flyby_sound", "read_optional_16", "sound_names">>,
       <<"rebound_sound", "read_optional_16", "sound_names">> >>

\* m2::TriggerDefinition::read
M2TriggerDefinitionFields ==
    << <<"rounds_per_magazine", "read_optional_16", "">>,
       <<"ammunition_type", "read_optional_16", "item_names">>,
       <<"ticks_per_round", "read_optional_16", "">>,
       <<"recovery_ticks", "read_optional_16", "">>,
       <<"charging_ticks", "read_optional_16", "">>,
       <<"recoil_magnitude", "read_world_distance", "">>,
       <<"firing_sound", "read_optional_16", "sound_names">>,
       <<"click_sound", "read_optional_16", "sound_names">>,
       <<"charging_sound", "read_optional_16", "sound_names">>,
       <<"shell_casing_sound", "read_optional_16", "sound_names">>,
       <<"reloading_sound", "read_optional_16", "sound_names">>,
       <<"charged_sound", "read_optional_16", "sound_names">>,
       <<"projectile_type", "read_optional_16", "projectile_names">>,
       <<"theta_error", "read_angle", "">>,
       <<"dx", "read_world_distance", "">>,
       <<"dz", "read_world_distance", "">>,
       <<"shell_casing_type", "read_optional_16", "">>,
       <<"burst_count", "read_optional_16", "">> >>

\* m2::WeaponDefinition::read
M2WeaponDefinitionFields ==
    << <<"name", "identify_index", "weapon_names">>,
       <<"item_type", "read_optional_16", "item_names">>,
       <<"powerup_type", "read_optional_16", "item_names">>,
       <<"weapon_class", "read_optional_16", "weapon_class_names">>,
       <<"flags", "decode_flags16",
          <<"is_automatic", "disappears_after_use",
            "plays_instant_shell_casing_sound", "overloads",
            "has_random_ammo_on_pickup", "powerup_is_temporary",
            "reloads_in_one_hand", "fires_out_of_phase", "fires_under_media",
            "triggers_share_ammo", "secondary_has_angular_flipping">>>>,
       <<"firing_light_intensity", "read_fx_16_16", "">>,
       <<"firing_intensity_decay_ticks", "read_optional_16", "">>,
       <<"idle_height", "read_fx_16_16", "">>,
       <<"bob_amplitude", "read_fx_16_16", "">>,
       <<"kick_height", "read_fx_16_16", "">>,
       <<"reload_height", "read_fx_16_16", "">>,
       <<"idle_width", "read_fx_16_16", "">>,
       <<"horizontal_amplitude", "read_fx_16_16", "">>,
       <<"collection", "read_optional_16", "">>,
       <<"idle_sequence", "read_optional_16", "">>,
       <<"firing_sequence", "read_optional_16", "">>,
       <<"reloading_sequence", "read_optional_16", "">>,
       <<"_unused", "read16", "">>,
       <<"charging_sequence", "read_optional_16", "">>,
       <<"charged_sequence", "read_optional_16", "">>,
       <<"ready_ticks", "read_optional_16", "">>,
       <<"await_reload_ticks", "read_optional_16", "">>,
       <<"loading_ticks", "read_optional_16", "">>,
       <<"finish_loading_ticks", "read_optional_16", "">>,
       <<"powerup_ticks", "read_optional_16", "">>,
       <<"triggers[0]", "TriggerDefinition::read", "">>,
       <<"triggers[1]", "TriggerDefinition::read", "">> >>

\* m2::PhysicsDefinition::read
M2PhysicsDefinitionFields ==
    << <<"maximum_forward_velocity", "read_fx_16_16", "">>,
       <<"maximum_backward_velocity", "read_fx_16_16", "">>,
       <<"maximum_perpendicular_velocity", "read_fx_16_16", "">>,
       <<"acceleration", "read_fx_16_16", "">>,
       <<"deceleration", "read_fx_16_16", "">>,
       <<"airborne_deceleration", "read_fx_16_16", "">>,
       <<"gravitational_acceleration", "read_fx_16_16", "">>,
       <<"climbing_acceleration", "read_fx_16_16", "">>,
       <<"terminal_velocity", "read_fx_16_16", "">>,
       <<"external_deceleration", "read_fx_16_16", "">>,
       <<"angular_acceleration", "read_fx_16_16", "">>,
       <<"angular_deceleration", "read_fx_16_16", "">>,
       <<"maximum_angular_velocity", "read_fx_16_16", "">>,
       <<"angular_recentering_velocity", "read_fx_16_16", "">>,
       <<"fast_angular_velocity", "read_fx_16_16", "">>,
       <<"fast_angular_maximum", "read_fx_16_16", "">>,
       <<"maximum_elevation", "read_fx_16_16", "">>,
       <<"external_angular_deceleration", "read_fx_16_16", "">>,
       <<"step_delta", "read_fx_16_16", "">>,
       <<"step_amplitude", "read_fx_16_16", "">>,
       <<"radius", "read_fx_16_16", "">>,
       <<"height", "read_fx_16_16", "">>,
       <<"dead_height", "read_fx_16_16", "">>,
       <<"camera_height", "read_fx_16_16", "">>,
       <<"splash_height", "read_fx_16_16", "">>,
       <<"half_camera_separation", "read_fx_16_16", "">> >>

(***************************************************************************)
(* The record decoders                                                     *)
(***************************************************************************)
\* Option::map
MapIdentify(o, db) == IF o = None THEN None ELSE Some(identify(db, o[1]))

\* The read a reader performs on the byte source (no read at all for a
\* value that comes from the index, a constant or another field).
RawRead(reader, in) ==
    CASE reader \in {"read_optional_16", "collection_and_clut"} -> read_optional_16(in)
      [] reader = "read_optional_32" -> read_optional_32(in)
      [] reader = "read_generic_bitfield32" -> read_generic_bitfield32(in)
      [] reader \in {"read16", "read16_as_i16", "read16_discard", "decode_flags16"} ->
             read16(in)
      [] reader = "decode_flags32" -> read32(in)
      [] reader = "read_fx_16_16" -> read_fx_16_16(in)
      [] reader \in {"read_world_distance", "read_world_speed", "read_world_accel"} ->
             read_fx_6_10(in)
      [] reader = "read_optional_fx_6_10" -> read_optional_fx_6_10(in)
      [] reader = "read_angle" -> read_angle(in)
      [] reader \in {"identify_index", "None", "clone"} -> Rd(<<>>, in)

\* The split keeping the collection bits in the colour table.
split_collection_and_clut_unshifted(collection_and_clut, db) ==
    ("collection" :>
        (IF collection_and_clut = None THEN None
         ELSE Some(identify(db, collection_and_clut[1] % 32))))
        @@ ("clut" :>
               (IF collection_and_clut = None THEN None
                ELSE Some(collection_and_clut[1])))

\* let collection = collection_and_clut.map(|x| db.identify(x % 32));
\* let clut = collection_and_clut.map(|x| x / 32);
split_collection_and_clut(collection_and_clut, db) ==
    ("collection" :>
        (IF collection_and_clut = None THEN None
         ELSE Some(identify(db, collection_and_clut[1] % 32))))
        @@ ("clut" :>
               (IF collection_and_clut = None THEN None
                ELSE Some(collection_and_clut[1] \div 32)))

\* The record built so far, extended by the field(s) a statement yields
\* from the value v it read.
Assign(f, v, dbs, index, acc) ==
    LET name == f[1]
        reader == f[2]
        arg == f[3]
    IN  CASE reader = "collection_and_clut" ->
                 acc @@ split_collection_and_clut(v, dbs[arg])
          [] reader = "read_optional_16" /\ arg # "" ->
                 acc @@ (name :> MapIdentify(v, dbs[arg]))
          [] reader = "read_optional_32" ->
                 acc @@ (name :>
                            (IF v = None THEN None
                             ELSE Some(identify32(dbs[arg], v[1]))))
          [] reader = "read_generic_bitfield32" ->
                 acc @@ (name :> [k \in 1..Len(v) |-> identify(dbs[arg], v[k])])
          [] reader = "decode_flags16" -> acc @@ (name :> decode_flags(<<0, v>>, arg))
          [] reader = "decode_flags32" -> acc @@ (name :> decode_flags(v, arg))
          [] reader = "read16_as_i16" -> acc @@ (name :> AsI16(v))
          [] reader = "read16_discard" -> acc
          [] reader = "identify_index" -> acc @@ (name :> identify(dbs[arg], index))
          [] reader = "None" -> acc @@ (name :> None)
          [] reader = "clone" -> acc @@ (name :> acc[arg])
          [] OTHER -> acc @@ (name :> v)

RECURSIVE ReadFields(_, _, _, _, _)

\* AttackDefinition::read yielding absent when any of its three optional
\* fields is absent.
AttackDefinition_read_any_absent(in, dbs) ==
    Try(ReadFields(AttackDefinitionFields, in, dbs, 0, <<>>),
        LAMBDA v, rest :
            Rd(IF v["projectile_type"] = None \/ v["repetitions"] = None
                     \/ v["attack_sequence"] = None
               THEN None
               ELSE Some([v EXCEPT !["projectile_type"] = @[1]]),
               rest))

\* AttackDefinition::read (the same in both generations): all eight fields
\* are read, then projectile_type.map(..) makes the attack of them.
AttackDefinition_read(in, dbs) ==
    Try(ReadFields(AttackDefinitionFields, in, dbs, 0, <<>>),
        LAMBDA v, rest :
            Rd(IF v["projectile_type"] = None
               THEN None
               ELSE Some([v EXCEPT !["projectile_type"] = @[1]]),
               rest))

\* One statement of a read function: the read, and on success the extended
\* record and the advanced byte source.
ReadField(f, in, dbs, index, acc) ==
    Try(CASE f[2] = "DamageDefinition::read" ->
                 ReadFields(DamageDefinitionFields, in, dbs, index, <<>>)
          [] f[2] = "TriggerDefinition::read" ->
                 ReadFields(M2TriggerDefinitionFields, in, dbs, index, <<>>)
          [] f[2] = "AttackDefinition::read" -> AttackDefinition_read(in, dbs)
          [] OTHER -> RawRead(f[2], in),
        LAMBDA v, rest : Rd(Assign(f, v, dbs, index, acc), rest))

\* Statements lo..hi of a read function in order, as the first half followed
\* by the second; the first failing read ends it with that error (the ?
\* operator).
RECURSIVE ReadStatements(_, _, _, _, _, _, _)
ReadStatements(fields, lo, hi, in, dbs, index, acc) ==
    IF lo > hi THEN Rd(acc, in)
    ELSE IF lo = hi THEN ReadField(fields[lo], in, dbs, index, acc)
    ELSE Try(ReadStatements(fields, lo, (lo + hi) \div 2, in, dbs, index, acc),
             LAMBDA val, rest :
                 ReadStatements(fields, (lo + hi) \div 2 + 1, hi, rest, dbs, index, val))

\* All the statements of a read function.
ReadFields(fields, in, dbs, index, acc) ==
    ReadStatements(fields, 1, Len(fields), in, dbs, index, acc)

\* The eight list decoders: the record size and the entity named in the
\* size-mismatch message of read_definitions, and the fields of read.
M1MonsterDefinition ==
    [id |-> "m1::MonsterDefinition", size |-> 138, what |-> "monster",
     fields |-> M1MonsterDefinitionFields]
M1EffectDefinition ==
    [id |-> "m1::EffectDefinition", size |-> 6, what |-> "effect",
     fields |-> M1EffectDefinitionFields]
M1ProjectileDefinition ==
    [id |-> "m1::ProjectileDefinition", size |-> 36, what |-> "projectile",
     fields |-> M1ProjectileDefinitionFields]
\* The older weapon decoder copying trigger 0's reloading sound into
\* trigger 1's charging sound.
M1WeaponDefinitionCloneReloading ==
    [id |-> "m1::WeaponDefinition", size |-> 120, what |-> "weapon",
     fields |-> [i \in 1..Len(M1WeaponDefinitionFields) |->
                    IF M1WeaponDefinitionFields[i][1] = "triggers[1].charging_sound"
                    THEN <<"triggers[1].charging_sound", "clone",
                           "triggers[0].reloading_sound">>
                    ELSE M1WeaponDefinitionFields[i]]]

\* The older weapon decoder reading the ammunition types of both triggers
\* before the rounds per magazine of both (statements 6 and 7 exchanged).
M1WeaponDefinitionFieldByField ==
    [id |-> "m1::WeaponDefinition", size |-> 120, what |-> "weapon",
     fields |-> [i \in 1..Len(M1WeaponDefinitionFields) |->
                    M1WeaponDefinitionFields[IF i = 6 THEN 7
                                             ELSE IF i = 7 THEN 6 ELSE i]]]
M1WeaponDefinition ==
    [id |-> "m1::WeaponDefinition", size |-> 120, what |-> "weapon",
     fields |-> M1WeaponDefinitionFields]
M2MonsterDefinition ==
    [id |-> "m2::MonsterDefinition", size |-> 156, what |-> "monster",
     fields |-> M2MonsterDefinitionFields]
\* The newer effect decoder without its last statement.
M2EffectDefinitionShort ==
    [id |-> "m2::EffectDefinition", size |-> 14, what |-> "effect",
     fields |-> SubSeq(M2EffectDefinitionFields, 1, Len(M2EffectDefinitionFields) - 1)]
M2EffectDefinition ==
    [id |-> "m2::EffectDefinition", size |-> 14, what |-> "effect",
     fields |-> M2EffectDefinitionFields]
M2ProjectileDefinition ==
    [id |-> "m2::ProjectileDefinition", size |-> 48, what |-> "projectile",
     fields |-> M2ProjectileDefinitionFields]
M2WeaponDefinition ==
    [id |-> "m2::WeaponDefinition", size |-> 134, what |-> "weapon",
     fields |-> M2WeaponDefinitionFields]

ListDecoders ==
    {M1MonsterDefinition, M1EffectDefinition, M1ProjectileDefinition,
     M1WeaponDefinition, M2MonsterDefinition, M2EffectDefinition,
     M2ProjectileDefinition, M2WeaponDefinition}

\* XDefinition::read(input, namedbs, index)
ReadRecord(schema, in, dbs, index) == ReadFields(schema.fields, in, dbs, index, <<>>)

\* anyhow!("non-integer number of ... definitions, or corrupted/misdetected
\* physics file")
RecordSizeMismatch(schema) ==
    Err(<<"non-integer number of definitions, or corrupted/misdetected physics file",
          schema.what>>)

\* input.len() % SIZE_OF_..._DEFINITION != 0
NotWholeRecordsShortOnly(schema, data) == Len(data) < schema.size /\ Len(data) # 0

NotWholeRecords(schema, data) == Len(data) % schema.size # 0

\* chunks_exact that yields the first slice every time.
NextChunkAlwaysFirst(schema, in) == SubSeq(in.data, 1, schema.size)

\* The slice chunks_exact yields next, when size bytes remain.
NextChunk(schema, in) == SubSeq(in.data, in.pos + 1, in.pos + schema.size)

\* The first error of a sequence of results, or the sequence of their
\* values: collect() into a Result.
CollectResults(rs) ==
    IF \E i \in 1..Len(rs) : ~rs[i].ok
    THEN Err(rs[CHOOSE i \in 1..Len(rs) : ~rs[i].ok /\ \A j \in 1..(i - 1) : rs[j].ok].err)
    ELSE Ok([i \in 1..Len(rs) |-> rs[i].val])

\* chunks_exact(SIZE).enumerate().map(read).collect(): the slices of the
\* payload in order, each decoded with its number.
CollectDefinitions(schema, data, dbs) ==
    CollectResults(
        [i \in 1..(Len(data) \div schema.size) |->
            ReadRecord(schema,
                       Cursor(NextChunk(schema,
                                        [data |-> data, pos |-> (i - 1) * schema.size])),
                       dbs, i - 1)])

\* XDefinition::read_definitions(input, namedbs)
read_definitions(schema, data, dbs) ==
    IF NotWholeRecords(schema, data) THEN RecordSizeMismatch(schema)
    ELSE CollectDefinitions(schema, data, dbs)

\* PhysicsDefinitions::read(input, namedb): the walking block, then the
\* running block, from the same byte source.
\* PhysicsDefinitions::read taking the running block from the bytes of the
\* walking block.
PhysicsDefinitionsReadOneBlock(fields, in, dbs) ==
    Try(ReadFields(fields, in, dbs, 0, <<>>), LAMBDA walking, rest :
        Try(ReadFields(fields, in, dbs, 0, <<>>), LAMBDA running, rest2 :
            Rd([walking |-> walking, running |-> running], rest2)))

PhysicsDefinitionsRead(fields, in, dbs) ==
    Try(ReadFields(fields, in, dbs, 0, <<>>), LAMBDA walking, rest :
        Try(ReadFields(fields, rest, dbs, 0, <<>>), LAMBDA running, rest2 :
            Rd([walking |-> walking, running |-> running], rest2)))

(***************************************************************************)
(* The primitive codec applied to bounded inputs                           *)
(***************************************************************************)
\* Byte values at the edges of the codec's case distinctions.
EdgeBytes == {0, 1, 4, 5, 127, 128, 252, 255}

\* Every 4-byte word over EdgeBytes, and one input of each length too short
\* for a 32-bit read.
CodecInputs ==
    {<<a, b, c, d>> : a \in EdgeBytes, b \in EdgeBytes,
                      c \in EdgeBytes, d \in EdgeBytes}
        \cup {<<>>, <<128>>, <<0, 5>>, <<128, 0, 128>>}

\* Every 16-bit word, followed by one more byte.
Codec16Inputs == {<<a, b, 170>> : a \in 0..255, b \in 0..255}

\* The state before an operation is invoked on byte source in with name
\* databases dbs.
Idle(in, dbs) ==
    /\ input = in
    /\ namedbs = dbs
    /\ call = [op |-> "none"]
    /\ pc = "start"
    /\ chunks = <<>>
    /\ physics_wad = None
    /\ definitions = <<>>
    /\ result = None
    /\ stdout = <<>>

InitCodec == \E d \in CodecInputs : Idle(Cursor(d), DefaultNameDbs)

\* One call of a primitive reader on the byte source: the source advances
\* and the value (or the error) is the result.
Call(name, r) ==
    /\ pc = "start"
    /\ call' = [op |-> name]
    /\ pc' = "done"
    /\ result' = IF r.ok THEN Ok(r.val) ELSE Err(r.err)
    /\ input' = IF r.ok THEN r.input ELSE input
    /\ UNCHANGED <<namedbs, chunks, physics_wad, definitions, stdout>>

CallReadOptional16 == Call("read_optional_16", read_optional_16(input))
CallReadOptional32 == Call("read_optional_32", read_optional_32(input))
CallReadGenericBitfield32 ==
    Call("read_generic_bitfield32", read_generic_bitfield32(input))

CallReadFx1616 == Call("read_fx_16_16", read_fx_16_16(input))
CallReadFx610 == Call("read_fx_6_10", read_fx_6_10(input))
CallReadAngle == Call("read_angle", read_angle(input))

NextCodec ==
    \/ CallReadOptional16
    \/ CallReadOptional32
    \/ CallReadGenericBitfield32
    \/ CallReadFx1616
    \/ CallReadFx610
    \/ CallReadAngle

SpecCodec == InitCodec /\ [][NextCodec]_vars

\* The 16-bit readers on every 16-bit word.
InitCodec16 == \E d \in Codec16Inputs : Idle(Cursor(d), DefaultNameDbs)

NextCodec16 == CallReadOptional16

SpecCodec16 == InitCodec16 /\ [][NextCodec16]_vars

\* The 16-bit word at the start of the byte source, and the halves of the
\* 32-bit word there, computed from the bytes.
FirstWord16 == input.data[1] * 256 + input.data[2]
FirstWord32Hi == input.data[1] * 256 + input.data[2]
FirstWord32Lo == input.data[3] * 256 + input.data[4]
\* Bit i (0..31) of the 32-bit word at the start of the byte source.
FirstWord32Bit(i) ==
    IF i < 16 THEN (FirstWord32Lo \div Pow2(i)) % 2 = 1
    ELSE (FirstWord32Hi \div Pow2(i - 16)) % 2 = 1

\* C8: read_optional_16 returns absent for every word in 0x8000..0xFFFF and
\* present(v), the word unmodified, for every v in 0..0x7FFF, and consumes
\* exactly 2 bytes in either case.
C8_ReadOptional16 ==
    (call.op = "read_optional_16" /\ Len(input.data) >= 2) =>
        /\ result.ok
        /\ (FirstWord16 \in 32768..65535 => result.val = None)
        /\ (FirstWord16 \in 0..32767 => result.val = Some(FirstWord16))
        /\ input.pos = 2

C8_Witness ==
    /\ call.op = "read_optional_16"
    /\ input.data = <<128, 0, 170>>
    /\ result = Ok(None)
    /\ input.pos = 2

\* C9: read_optional_32 decides presence on bit 15 of the 32-bit word, not
\* bit 31: a word with bit 0x8000 set is absent, a word with it clear is
\* present with all 32 bits unchanged, also when bit 31 is set.
C9_ReadOptional32Bit15 ==
    (call.op = "read_optional_32" /\ Len(input.data) >= 4) =>
        /\ result.ok
        /\ (FirstWord32Bit(15) => result.val = None)
        /\ (~FirstWord32Bit(15) =>
                result.val = Some(<<FirstWord32Hi, FirstWord32Lo>>))
        /\ (input.data = <<0, 0, 128, 0>> => result.val = None)
        /\ (input.data = <<255, 255, 0, 0>> => result.val = Some(<<65535, 0>>))
        /\ (input.data = <<128, 0, 0, 0>> => result.val = Some(<<32768, 0>>))

C9_Witness ==
    /\ call.op = "read_optional_32"
    /\ input.data = <<128, 0, 0, 0>>
    /\ result = Ok(Some(<<32768, 0>>))

RECURSIVE PopCount(_)
PopCount(n) == IF n = 0 THEN 0 ELSE (n % 2) + PopCount(n \div 2)

\* C10: read_generic_bitfield32 returns the strictly ascending list of
\* exactly the bit indices 0..31 that are set in the word, so its length is
\* the population count: 0b101 gives [0, 2], 0 gives [], 0xFFFFFFFF gives
\* 0..31.
C10_GenericBitfield32 ==
    (call.op = "read_generic_bitfield32" /\ Len(input.data) >= 4) =>
        /\ result.ok
        /\ \A k \in 1..(Len(result.val) - 1) : result.val[k] < result.val[k + 1]
        /\ \A i \in 0..31 :
               FirstWord32Bit(i) <=> (\E k \in 1..Len(result.val) : result.val[k] = i)
        /\ \A k \in 1..Len(result.val) : result.val[k] \in 0..31
        /\ Len(result.val) = PopCount(FirstWord32Hi) + PopCount(FirstWord32Lo)
        /\ (input.data = <<0, 0, 0, 5>> => result.val = <<0, 2>>)
        /\ (input.data = <<0, 0, 0, 0>> => result.val = <<>>)
        /\ (input.data = <<255, 255, 255, 255>> =>
                result.val = [i \in 1..32 |-> i - 1])

C10_Witness ==
    /\ call.op = "read_generic_bitfield32"
    /\ input.data = <<0, 0, 0, 5>>
    /\ result = Ok(<<0, 2>>)
(***************************************************************************)
(* The record decoders applied to bounded payloads                         *)
(***************************************************************************)
\* The most whole records in a payload, and the most surplus bytes after
\* them.
MaxRecords == 2
MaxSurplus == 1

\* Name databases as NameDbs::new builds them from a directory holding some
\* of the name files, with blank lines (gaps) in them; the weapon classes
\* are the built-in table in every case.
SampleNameDbs ==
    [DefaultNameDbs EXCEPT
        !.monster_names = [names |-> <<Some("marine"), None, Some("tick")>>],
        !.effect_names = [names |-> <<None, Some("rocket explosion")>>],
        !.collection_names = [names |-> <<Some("interface"), Some("weapons in hand")>>],
        !.damage_type_names = [names |-> <<Some("explosion")>>],
        !.sound_names = [names |-> <<Some("startup")>>]]

NameDbsChoices == {DefaultNameDbs, SampleNameDbs}

\* Byte j (from 1) of a payload filled with pattern p.
PatternByte(p, j) ==
    CASE p = "zero" -> 0
      [] p = "ones" -> 255
      [] p = "ramp" -> (7 * j + 3) % 256
      [] p = "low" -> (5 * j + 1) % 128

Patterns == {"zero", "ones", "ramp", "low"}

Payload(p, n) == [j \in 1..n |-> PatternByte(p, j)]

\* The bytes of one block of a movement profile.
PhysicsFields(gen) ==
    IF gen = "m1" THEN M1PhysicsDefinitionFields ELSE M2PhysicsDefinitionFields
PhysicsBlockSize(gen) == 4 * Len(PhysicsFields(gen))

\* Payload lengths: up to MaxRecords whole records of every list decoder and
\* up to MaxRecords + 1 blocks of a movement profile, followed by up to
\* MaxSurplus bytes, and one byte less than a record.
DecodeLengths ==
    {k * s.size + d : s \in ListDecoders, k \in 0..MaxRecords, d \in 0..MaxSurplus}
        \cup {s.size - 1 : s \in ListDecoders}
        \cup {b * PhysicsBlockSize(g) + d :
                 g \in {"m1", "m2"}, b \in 0..(MaxRecords + 1), d \in 0..MaxSurplus}

InitDecode ==
    \E n \in DecodeLengths, p \in Patterns, dbs \in NameDbsChoices :
        Idle(Cursor(Payload(p, n)), dbs)

SchemaOf(id) == CHOOSE s \in ListDecoders : s.id = id

\* read_definitions is entered: the length test, which returns the
\* size-mismatch error at once.
ReadDefinitionsEnter(s) ==
    /\ pc = "start"
    /\ call' = [op |-> "read_definitions", schema |-> s.id]
    /\ IF NotWholeRecords(s, input.data)
       THEN /\ result' = RecordSizeMismatch(s)
            /\ pc' = "done"
       ELSE /\ result' = result
            /\ pc' = "chunks_exact"
    /\ UNCHANGED <<input, namedbs, chunks, physics_wad, definitions, stdout>>

\* One step of the iterator: the next slice is decoded with its index, and
\* the first error ends the collection.
ReadDefinitionsNext ==
    /\ pc = "chunks_exact"
    /\ Len(input.data) - input.pos >= SchemaOf(call.schema).size
    /\ \E s \in {SchemaOf(call.schema)} :
       \E r \in {ReadRecord(s, Cursor(NextChunk(s, input)), namedbs, Len(definitions))} :
           IF r.ok
           THEN /\ definitions' = Append(definitions, r.val)
                /\ input' = [input EXCEPT !.pos = @ + s.size]
                /\ UNCHANGED <<pc, result>>
           ELSE /\ result' = Err(r.err)
                /\ pc' = "done"
                /\ UNCHANGED <<definitions, input>>
    /\ UNCHANGED <<namedbs, call, chunks, physics_wad, stdout>>

\* The iterator is exhausted: the collected records are returned.
ReadDefinitionsCollect ==
    /\ pc = "chunks_exact"
    /\ Len(input.data) - input.pos < SchemaOf(call.schema).size
    /\ result' = Ok(definitions)
    /\ pc' = "done"
    /\ UNCHANGED <<input, namedbs, call, chunks, physics_wad, definitions, stdout>>

\* PhysicsDefinitions::read on the payload.
CallPhysicsDefinitionsRead(gen) ==
    /\ pc = "start"
    /\ call' = [op |-> "PhysicsDefinitions::read", schema |-> gen]
    /\ \E r \in {PhysicsDefinitionsRead(PhysicsFields(gen), input, namedbs)} :
           /\ result' = IF r.ok THEN Ok(r.val) ELSE Err(r.err)
           /\ input' = IF r.ok THEN r.input ELSE input
    /\ pc' = "done"
    /\ UNCHANGED <<namedbs, chunks, physics_wad, definitions, stdout>>

NextDecode ==
    \/ \E s \in ListDecoders : ReadDefinitionsEnter(s)
    \/ ReadDefinitionsNext
    \/ ReadDefinitionsCollect
    \/ \E gen \in {"m1", "m2"} : CallPhysicsDefinitionsRead(gen)

SpecDecode == InitDecode /\ [][NextDecode]_vars

\* The step-by-step collection returns what read_definitions computes.
ReadDefinitionsAgree ==
    (call.op = "read_definitions" /\ pc = "done") =>
        result = read_definitions(SchemaOf(call.schema), input.data, namedbs)

\* The record size the specification states for each list decoder.
StatedRecordSize(id) ==
    CASE id = "m1::MonsterDefinition" -> 138
      [] id = "m2::MonsterDefinition" -> 156
      [] id = "m1::EffectDefinition" -> 6
      [] id = "m2::EffectDefinition" -> 14
      [] id = "m1::ProjectileDefinition" -> 36
      [] id = "m2::ProjectileDefinition" -> 48
      [] id = "m1::WeaponDefinition" -> 120
      [] id = "m2::WeaponDefinition" -> 134

\* The name database a list decoder names its records from.
OwnNames(id) ==
    CASE id \in {"m1::MonsterDefinition", "m2::MonsterDefinition"} -> "monster_names"
      [] id \in {"m1::EffectDefinition", "m2::EffectDefinition"} -> "effect_names"
      [] id \in {"m1::ProjectileDefinition", "m2::ProjectileDefinition"} ->
             "projectile_names"
      [] id \in {"m1::WeaponDefinition", "m2::WeaponDefinition"} -> "weapon_names"

\* C1: for every list decoder and every payload of k whole records (k = 0
\* included), read_definitions returns exactly k records, record i decoded
\* from bytes [i*size, (i+1)*size) of the payload and named from index i.
C1_ReadDefinitionsWholeRecords ==
    (/\ call.op = "read_definitions"
     /\ pc = "done"
     /\ Len(input.data) % StatedRecordSize(call.schema) = 0) =>
        LET size == StatedRecordSize(call.schema)
            k == Len(input.data) \div size
        IN  /\ result.ok
            /\ Len(result.val) = k
            /\ \A i \in 0..(k - 1) :
                   LET slice == SubSeq(input.data, i * size + 1, (i + 1) * size)
                       r == ReadRecord(SchemaOf(call.schema), Cursor(slice), namedbs, i)
                   IN  /\ r.ok
                       /\ result.val[i + 1] = r.val
                       /\ result.val[i + 1]["name"] =
                              identify(namedbs[OwnNames(call.schema)], i)

C1_Witness ==
    /\ call.op = "read_definitions"
    /\ call.schema = "m2::WeaponDefinition"
    /\ pc = "done"
    /\ Len(input.data) = 268
    /\ result.ok
    /\ Len(result.val) = 2
    /\ result.val[1]["item_type"] # result.val[2]["item_type"]
    /\ result.val[2]["name"] = [Number |-> 1]

\* C2: for every list decoder a payload whose length is not a multiple of
\* the record size (138/156, 6/14, 36/48, 120/134) yields the size-mismatch
\* error, and no record has been decoded when it is returned.
C2_SizeMismatch ==
    (/\ call.op = "read_definitions"
     /\ pc = "done"
     /\ Len(input.data) % StatedRecordSize(call.schema) # 0) =>
        /\ ~result.ok
        /\ result.err[1] =
               "non-integer number of definitions, or corrupted/misdetected physics file"
        /\ result.err[2] = SchemaOf(call.schema).what
        /\ definitions = <<>>
        /\ input.pos = 0

C2_Witness ==
    /\ call.op = "read_definitions"
    /\ call.schema = "m1::ProjectileDefinition"
    /\ pc = "done"
    /\ Len(input.data) = 37
    /\ ~result.ok
    /\ result.err[2] = "projectile"
    /\ definitions = <<>>

\* C3: the movement-profile decoder (both generations) verifies that the
\* payload length is a multiple of its record size and fails with the
\* size-mismatch error otherwise, so a payload with surplus trailing bytes
\* is rejected rather than decoded.
C3_MovementProfileSizeCheck ==
    (/\ call.op = "PhysicsDefinitions::read"
     /\ pc = "done"
     /\ Len(input.data) % PhysicsBlockSize(call.schema) # 0) =>
        /\ ~result.ok
        /\ result.err[1] =
               "non-integer number of definitions, or corrupted/misdetected physics file"

\* The optional fields of an older-generation monster.
M1MonsterOptionalFields ==
    {"collection", "clut", "vitality", "class", "activation_sound",
     "conversation_sound", "flaming_sound", "random_sound", "random_sound_mask",
     "carrying_item_type", "impact_effect", "melee_impact_effect", "intelligence",
     "door_retry_mask", "shrapnel_radius", "hit_sequence", "hard_dying_sequence",
     "soft_dying_sequence", "hard_dead_sequence", "soft_dead_sequence",
     "stationary_sequence", "moving_sequence", "attack_frequency", "melee_attack",
     "ranged_attack"}

\* One all-zero older-generation monster record has been decoded with no
\* name mapping.
ZeroMonsterDecoded ==
    /\ call.op = "read_definitions"
    /\ call.schema = "m1::MonsterDefinition"
    /\ pc = "done"
    /\ input.data = [j \in 1..138 |-> 0]
    /\ namedbs = DefaultNameDbs

\* C7 as stated: the all-zero 138-byte older-generation monster record, with
\* no name mapping, decodes to exactly one monster whose name is the numeric
\* index 0, whose every optional field (and both attack sub-records) is
\* absent, and whose boolean flags are all false.
C7_ZeroMonsterOptionalsAbsent ==
    ZeroMonsterDecoded =>
        /\ result.ok
        /\ Len(result.val) = 1
        /\ result.val[1]["name"] = [Number |-> 0]
        /\ \A f \in M1MonsterOptionalFields : result.val[1][f] = None
        /\ \A n \in DOMAIN result.val[1]["flags"] : ~result.val[1]["flags"][n]

\* C7 amended: the all-zero record decodes to exactly one monster whose name
\* is the numeric index 0, whose boolean flags are all false, whose bit sets
\* are empty, and whose every optional field is PRESENT with the value zero
\* (a word is absent only when its bit 15 is set): index fields are the
\* numeric index 0, both attack sub-records are present with projectile
\* type 0.
C7_ZeroMonsterOptionalsPresent ==
    ZeroMonsterDecoded =>
        /\ result.ok
        /\ Len(result.val) = 1
        /\ LET m == result.val[1]
           IN  /\ m["name"] = [Number |-> 0]
               /\ \A f \in M1MonsterOptionalFields : IsSome(m[f])
               /\ \A n \in DOMAIN m["flags"] : ~m["flags"][n]
               /\ DOMAIN m["flags"] =
                      {MonsterFlagNames[i] : i \in 1..Len(MonsterFlagNames)}
               /\ \A f \in {"immunities", "weaknesses", "friends", "enemies"} :
                      m[f] = <<>>
               /\ \A f \in {"clut", "vitality", "random_sound_mask", "intelligence",
                            "door_retry_mask", "hit_sequence", "hard_dying_sequence",
                            "soft_dying_sequence", "hard_dead_sequence",
                            "soft_dead_sequence", "stationary_sequence",
                            "moving_sequence", "attack_frequency"} : m[f] = Some(0)
               /\ \A f \in {"collection", "activation_sound", "conversation_sound",
                            "flaming_sound", "random_sound", "carrying_item_type",
                            "impact_effect", "melee_impact_effect"} :
                      m[f] = Some([Number |-> 0])
               /\ m["class"] = Some([Number |-> <<0, 0>>])
               /\ m["shrapnel_radius"] = Some(<<0, 0>>)
               /\ m["shrapnel_damage"]["damage_type"] = Some([Number |-> 0])
               /\ \A f \in {"melee_attack", "ranged_attack"} :
                      /\ m[f][1]["projectile_type"] = [Number |-> 0]
                      /\ m[f][1]["repetitions"] = Some(0)
                      /\ m[f][1]["attack_sequence"] = Some(0)

C7_Witness ==
    /\ ZeroMonsterDecoded
    /\ result.ok
    /\ Len(result.val) = 1
    /\ result.val[1]["vitality"] = Some(0)
    /\ IsSome(result.val[1]["melee_attack"])

(***************************************************************************)
(* wad.rs: chunks and their lookup                                         *)
(***************************************************************************)
\* The chunk tags of physics/m1.rs and physics/m2.rs.
M1_MONSTER_PHYSICS_TAG == <<109, 111, 110, 115>>     \* b"mons"
M1_EFFECT_PHYSICS_TAG == <<101, 102, 102, 101>>      \* b"effe"
M1_PROJECTILE_PHYSICS_TAG == <<112, 114, 111, 106>>  \* b"proj"
M1_PHYSICS_PHYSICS_TAG == <<112, 104, 121, 115>>     \* b"phys"
M1_WEAPON_PHYSICS_TAG == <<119, 101, 97, 112>>       \* b"weap"
M2_MONSTER_PHYSICS_TAG == <<77, 78, 112, 120>>       \* b"MNpx"
M2_EFFECT_PHYSICS_TAG == <<70, 88, 112, 120>>        \* b"FXpx"
M2_PROJECTILE_PHYSICS_TAG == <<80, 82, 112, 120>>    \* b"PRpx"
M2_PHYSICS_PHYSICS_TAG == <<80, 88, 112, 120>>       \* b"PXpx"
M2_WEAPON_PHYSICS_TAG == <<87, 80, 112, 120>>        \* b"WPpx"

\* struct Chunk
Chunk(kind, data) == [kind |-> kind, data |-> data]

\* String::from_utf8_lossy, the string being the sequence of its characters:
\* an ASCII byte is that character, and a byte from 128 on that belongs to no
\* well-formed sequence is replaced by U+FFFD.
from_utf8_lossy(bytes) ==
    [i \in 1..Len(bytes) |-> IF bytes[i] < 128 THEN bytes[i] ELSE 65533]

\* Chunk::find that keeps the last chunk of the kind.
RECURSIVE find_last(_, _)
find_last(cs, kind) ==
    IF cs = <<>> THEN Err(<<"Unable to find chunk of type", from_utf8_lossy(kind)>>)
    ELSE IF cs[Len(cs)].kind = kind THEN Ok(cs[Len(cs)].data)
    ELSE find_last(SubSeq(cs, 1, Len(cs) - 1), kind)

\* Chunk::find: the chunks are tried in order and the first of the kind
\* returns its data.
RECURSIVE find(_, _)
find(cs, kind) ==
    IF cs = <<>> THEN Err(<<"Unable to find chunk of type", from_utf8_lossy(kind)>>)
    ELSE IF Head(cs).kind = kind THEN Ok(Head(cs).data)
    ELSE find(Tail(cs), kind)

(***************************************************************************)
(* Chunk::find applied to bounded chunk lists                              *)
(***************************************************************************)
\* The longest chunk list.
MaxChunks == 3

FindTags == {M2_MONSTER_PHYSICS_TAG, M2_PHYSICS_PHYSICS_TAG, <<255, 88, 112, 120>>}
FindPayloads == {<<>>, <<7>>, <<8, 9>>}
FindChunks == {Chunk(k, d) : k \in FindTags, d \in FindPayloads}

InitFind ==
    /\ input = Cursor(<<>>)
    /\ namedbs = DefaultNameDbs
    /\ call = [op |-> "none"]
    /\ pc = "start"
    /\ \E n \in 0..MaxChunks : chunks \in [1..n -> FindChunks]
    /\ physics_wad = None
    /\ definitions = <<>>
    /\ result = None
    /\ stdout = <<>>

CallFind(kind) ==
    /\ pc = "start"
    /\ call' = [op |-> "Chunk::find", kind |-> kind]
    /\ result' = find(chunks, kind)
    /\ pc' = "done"
    /\ UNCHANGED <<input, namedbs, chunks, physics_wad, definitions, stdout>>

NextFind == \E kind \in FindTags : CallFind(kind)

SpecFind == InitFind /\ [][NextFind]_vars

\* C4: Chunk::find returns the payload of the lowest-indexed chunk whose tag
\* equals the requested tag, even when later chunks carry the same tag; if
\* no chunk has the tag it fails with the chunk-not-found error naming the
\* tag.
C4_FindFirstMatch ==
    (call.op = "Chunk::find" /\ pc = "done") =>
        /\ \A i \in 1..Len(chunks) :
               (/\ chunks[i].kind = call.kind
                /\ \A j \in 1..(i - 1) : chunks[j].kind # call.kind) =>
                   result = Ok(chunks[i].data)
        /\ (\A i \in 1..Len(chunks) : chunks[i].kind # call.kind) =>
               /\ ~result.ok
               /\ result.err[1] = "Unable to find chunk of type"
               /\ result.err[2] = from_utf8_lossy(call.kind)
               /\ (call.kind = M2_PHYSICS_PHYSICS_TAG => result.err[2] = <<80, 88, 112, 120>>)

\* The tag occurs in the second and the third chunk, with different payloads.
C4_Witness ==
    /\ call.op = "Chunk::find"
    /\ pc = "done"
    /\ call.kind = M2_PHYSICS_PHYSICS_TAG
    /\ chunks = <<Chunk(M2_MONSTER_PHYSICS_TAG, <<>>),
                  Chunk(M2_PHYSICS_PHYSICS_TAG, <<8, 9>>),
                  Chunk(M2_PHYSICS_PHYSICS_TAG, <<7>>)>>
    /\ result = Ok(<<8, 9>>)

(***************************************************************************)
(* wad.rs, physics.rs: the two containers                                  *)
(***************************************************************************)
WADFILE_HAS_DIRECTORY_ENTRY == 1
MAXIMUM_WADFILE_NAME_LENGTH == 64
MAXIMUM_DIRECTORY_ENTRIES_PER_FILE == 64

\* anyhow::Context::context: the message is put in front of the error.
context(r, msg) == IF r.ok THEN r ELSE Err(<<msg, r.err[1]>>)

\* A u32 offset plus k (k < 2^24) as a read position.  Positions are capped
\* at 2^31 - 1; every file of the model is shorter, so that a capped
\* position is past the end like the exact one.
Offset(w, k) ==
    IF w[1] < 32000 THEN w[1] * 65536 + w[2] + k ELSE 2147483647

\* Seek::seek(SeekFrom::Start(pos)) on a file or a Cursor: never fails, also
\* past the end.
seek(in, pos) == [in EXCEPT !.pos = pos]

\* vec![0; length] and read_exact into it, for a u32 length (a length from
\* 65536 on exceeds what is left of a file of the model).
read_vec(in, length) ==
    IF length[1] # 0 THEN IoError ELSE read_exact(in, length[2])

\* vec![0; count as usize * size as usize] and read_exact into it.
read_vec_of(in, count, size) ==
    IF count # 0 /\ size > (Len(in.data) - in.pos) \div count
    THEN IoError
    ELSE read_exact(in, count * size)

\* is_m1_physics that knows the monster tag only.
is_m1_physics_monsters_only(in) ==
    Try(read_exact(in, 4), LAMBDA buf, rest :
        Rd(buf = M1_MONSTER_PHYSICS_TAG, seek(rest, rest.pos - 4)))

\* is_m1_physics that leaves the read position behind the four bytes.
is_m1_physics_consuming(in) ==
    Try(read_exact(in, 4), LAMBDA buf, rest :
        Rd(buf \in {M1_MONSTER_PHYSICS_TAG, M1_EFFECT_PHYSICS_TAG,
                    M1_PROJECTILE_PHYSICS_TAG, M1_PHYSICS_PHYSICS_TAG,
                    M1_WEAPON_PHYSICS_TAG},
           rest))

\* is_m1_physics: the first four bytes are one of the five older tags; the
\* read position is put back.
is_m1_physics(in) ==
    Try(read_exact(in, 4), LAMBDA buf, rest :
        Rd(buf \in {M1_MONSTER_PHYSICS_TAG, M1_EFFECT_PHYSICS_TAG,
                    M1_PROJECTILE_PHYSICS_TAG, M1_PHYSICS_PHYSICS_TAG,
                    M1_WEAPON_PHYSICS_TAG},
           seek(rest, rest.pos - 4)))

\* read_m1_chunk that refuses a tag that is none of the five tags of the
\* older dialect.
read_m1_chunk_known_tags(in) ==
    IF ~read_exact(in, 4).ok THEN Rd(None, in)
    ELSE Try(read_exact(in, 4), LAMBDA kind, r0 :
         IF kind \notin {M1_MONSTER_PHYSICS_TAG, M1_EFFECT_PHYSICS_TAG,
                         M1_PROJECTILE_PHYSICS_TAG, M1_PHYSICS_PHYSICS_TAG,
                         M1_WEAPON_PHYSICS_TAG}
         THEN Err(<<"this is not a Marathon 1 physics file!", "">>)
         ELSE
         Try(context(read32(r0), "unable to read a chunk"), LAMBDA unused, r1 :
         Try(context(read16(r1), "unable to read a chunk"), LAMBDA count, r2 :
         Try(context(read16(r2), "unable to read a chunk"), LAMBDA size, r3 :
         Try(context(read_vec_of(r3, count, size),
                     "unable to read a chunk of a subfile of the WAD"),
             LAMBDA chunk_data, r4 : Rd(Some(Chunk(kind, chunk_data)), r4))))))

\* read_m1_chunk that takes every failed read for the end of the file.
read_m1_chunk_any_eof(in) ==
    IF ~read_exact(in, 12).ok THEN Rd(None, in)
    ELSE Try(read_exact(in, 4), LAMBDA kind, r0 :
         Try(read32(r0), LAMBDA unused, r1 :
         Try(read16(r1), LAMBDA count, r2 :
         Try(read16(r2), LAMBDA size, r3 :
             IF ~read_vec_of(r3, count, size).ok THEN Rd(None, in)
             ELSE Try(read_vec_of(r3, count, size),
                      LAMBDA chunk_data, r4 : Rd(Some(Chunk(kind, chunk_data)), r4))))))

\* One turn of the loop of Chunk::read_m1_chunks: Some(chunk) and the
\* advanced source, None when the tag cannot be read (break), or the error.
read_m1_chunk(in) ==
    IF ~read_exact(in, 4).ok THEN Rd(None, in)
    ELSE Try(read_exact(in, 4), LAMBDA kind, r0 :
         Try(context(read32(r0), "unable to read a chunk"), LAMBDA unused, r1 :
         Try(context(read16(r1), "unable to read a chunk"), LAMBDA count, r2 :
         Try(context(read16(r2), "unable to read a chunk"), LAMBDA size, r3 :
         Try(context(read_vec_of(r3, count, size),
                     "unable to read a chunk of a subfile of the WAD"),
             LAMBDA chunk_data, r4 : Rd(Some(Chunk(kind, chunk_data)), r4))))))

\* read_m2_chunk that reads every header where the last read ended.
read_m2_chunk_sequential(in, next_offset, n) ==
    IF ~read_exact(in, 4).ok
    THEN Rd(None, in)
    ELSE Try(read_exact(in, 4), LAMBDA kind, r0 :
         Try(context(read32(r0), "unable to read a chunk of the WAD"), LAMBDA next, r1 :
         Try(context(read32(r1), "unable to read a chunk of the WAD"), LAMBDA length, r2 :
         Try(context(read32(r2), "unable to read a chunk of the WAD"), LAMBDA unknown, r3 :
             IF unknown # Zero32
             THEN Err(<<"chunk has a nonzero value in the unknown-purpose \"offset\" field",
                        <<n, from_utf8_lossy(kind), next_offset>> >>)
             ELSE Try(context(read_vec(r3, length), "unable to read a chunk of the WAD"),
                      LAMBDA chunk_data, r4 :
                          Rd(Some([chunk |-> Chunk(kind, chunk_data), next_offset |-> next]),
                             r4))))))

\* read_m2_chunk without the test of the unknown field.
read_m2_chunk_unchecked(in, next_offset, n) ==
    IF ~read_exact(IF next_offset # Zero32 THEN seek(in, Offset(next_offset, 0)) ELSE in,
                   4).ok
    THEN Rd(None, in)
    ELSE Try(read_exact(IF next_offset # Zero32 THEN seek(in, Offset(next_offset, 0))
                        ELSE in, 4),
             LAMBDA kind, r0 :
         Try(context(read32(r0), "unable to read a chunk of the WAD"), LAMBDA next, r1 :
         Try(context(read32(r1), "unable to read a chunk of the WAD"), LAMBDA length, r2 :
         Try(context(read32(r2), "unable to read a chunk of the WAD"), LAMBDA unknown, r3 :
         Try(context(read_vec(r3, length), "unable to read a chunk of the WAD"),
             LAMBDA chunk_data, r4 :
                 Rd(Some([chunk |-> Chunk(kind, chunk_data), next_offset |-> next]),
                    r4))))))

\* One turn of the loop of Chunk::read_m2_chunks from next_offset: Some of
\* the chunk and the next offset, None at the break, or the error; n is
\* chunks.len().
read_m2_chunk(in, next_offset, n) ==
    IF ~read_exact(IF next_offset # Zero32 THEN seek(in, Offset(next_offset, 0)) ELSE in,
                   4).ok
    THEN Rd(None, in)
    ELSE Try(read_exact(IF next_offset # Zero32 THEN seek(in, Offset(next_offset, 0))
                        ELSE in, 4),
             LAMBDA kind, r0 :
         Try(context(read32(r0), "unable to read a chunk of the WAD"), LAMBDA next, r1 :
         Try(context(read32(r1), "unable to read a chunk of the WAD"), LAMBDA length, r2 :
         Try(context(read32(r2), "unable to read a chunk of the WAD"), LAMBDA unknown, r3 :
             IF unknown # Zero32
             THEN Err(<<"chunk has a nonzero value in the unknown-purpose \"offset\" field",
                        <<n, from_utf8_lossy(kind), next_offset>> >>)
             ELSE Try(context(read_vec(r3, length), "unable to read a chunk of the WAD"),
                      LAMBDA chunk_data, r4 :
                          Rd(Some([chunk |-> Chunk(kind, chunk_data), next_offset |-> next]),
                             r4))))))

\* The base size taken from the header whatever the version is.
declared_base_size(wad_version, directory_entry_base_size) ==
    directory_entry_base_size

\* The second let directory_entry_base_size of Wad::read_wad.
effective_base_size(wad_version, directory_entry_base_size) ==
    IF wad_version <= WADFILE_HAS_DIRECTORY_ENTRY THEN 8
    ELSE directory_entry_base_size

\* Wad::read_wad up to the directory loop: the header fields, with no
\* subfile yet.
read_wad_header(in) ==
    Try(is_m1_physics(in), LAMBDA m1, r0 :
        IF m1 THEN Err(<<"this is a Marathon 1 physics file, not a WAD!", "">>)
        ELSE
        Try(read16(r0), LAMBDA wad_version, r1 :
        Try(read16(r1), LAMBDA data_version, r2 :
        Try(read_exact(r2, MAXIMUM_WADFILE_NAME_LENGTH), LAMBDA file_name, r3 :
        Try(read32(r3), LAMBDA checksum, r4 :
        Try(read32(r4), LAMBDA directory_offset, r5 :
        Try(read16(r5), LAMBDA wad_count, r6 :
        Try(read16(r6), LAMBDA application_specific_directory_data_size, r7 :
        Try(read16(r7), LAMBDA entry_header_size, r8 :
        Try(read16(r8), LAMBDA directory_entry_base_size, r9 :
        Try(read32(r9), LAMBDA parent_checksum, r10 :
            Rd([wad_version |-> wad_version,
                data_version |-> data_version,
                file_name |-> file_name,
                checksum |-> checksum,
                directory_offset |-> directory_offset,
                wad_count |-> wad_count,
                application_specific_directory_data_size |->
                    application_specific_directory_data_size,
                entry_header_size |-> entry_header_size,
                directory_entry_base_size |->
                    effective_base_size(wad_version, directory_entry_base_size),
                parent_checksum |-> parent_checksum,
                files |-> <<>>],
               r10))))))))))))

\* unit_size of the directory of a Wad.
unit_size(wad) ==
    wad.application_specific_directory_data_size + wad.directory_entry_base_size

\* read_wad_entry that takes an entry whose offset cannot be read for an
\* error.
read_wad_entry_strict(in, wad, i) ==
    Try(read32(seek(in, Offset(wad.directory_offset, unit_size(wad) * i))),
        LAMBDA offset, r0 :
    Try(read32(r0), LAMBDA length, r1 :
    Try(context(read_vec(seek(r1, Offset(offset, 0)), length),
                "unable to read a subfile in WAD"),
        LAMBDA data, r2 : Rd(Some(data), r2))))

\* One turn of the directory loop of Wad::read_wad for entry i: Some(data of
\* the subfile), None when the entry's offset cannot be read (break), or the
\* error.
\* The directory scan ending at the declared subfile count.
read_wad_entry_counted(in, wad, i) ==
    IF i >= wad.wad_count
          \/ ~read32(seek(in, Offset(wad.directory_offset, unit_size(wad) * i))).ok
    THEN Rd(None, in)
    ELSE Try(read32(seek(in, Offset(wad.directory_offset, unit_size(wad) * i))),
             LAMBDA offset, r0 :
         Try(read32(r0), LAMBDA length, r1 :
         Try(context(read_vec(seek(r1, Offset(offset, 0)), length),
                     "unable to read a subfile in WAD"),
             LAMBDA data, r2 : Rd(Some(data), r2))))

read_wad_entry(in, wad, i) ==
    IF ~read32(seek(in, Offset(wad.directory_offset, unit_size(wad) * i))).ok
    THEN Rd(None, in)
    ELSE Try(read32(seek(in, Offset(wad.directory_offset, unit_size(wad) * i))),
             LAMBDA offset, r0 :
         Try(read32(r0), LAMBDA length, r1 :
         Try(context(read_vec(seek(r1, Offset(offset, 0)), length),
                     "unable to read a subfile in WAD"),
             LAMBDA data, r2 : Rd(Some(data), r2))))

(***************************************************************************)
(* physics/m1.rs, physics/m2.rs: convert_physics                           *)
(***************************************************************************)
\* The five lookups of convert_physics in their order.
ConvertSteps == <<"monster", "effect", "projectile", "weapon", "physics">>

StepTag(gen, step) ==
    CASE gen = "m1" /\ step = "monster" -> M1_MONSTER_PHYSICS_TAG
      [] gen = "m1" /\ step = "effect" -> M1_EFFECT_PHYSICS_TAG
      [] gen = "m1" /\ step = "projectile" -> M1_PROJECTILE_PHYSICS_TAG
      [] gen = "m1" /\ step = "weapon" -> M1_WEAPON_PHYSICS_TAG
      [] gen = "m1" /\ step = "physics" -> M1_PHYSICS_PHYSICS_TAG
      [] gen = "m2" /\ step = "monster" -> M2_MONSTER_PHYSICS_TAG
      [] gen = "m2" /\ step = "effect" -> M2_EFFECT_PHYSICS_TAG
      [] gen = "m2" /\ step = "projectile" -> M2_PROJECTILE_PHYSICS_TAG
      [] gen = "m2" /\ step = "weapon" -> M2_WEAPON_PHYSICS_TAG
      [] gen = "m2" /\ step = "physics" -> M2_PHYSICS_PHYSICS_TAG

StepSchema(gen, step) ==
    CASE gen = "m1" /\ step = "monster" -> M1MonsterDefinition
      [] gen = "m1" /\ step = "effect" -> M1EffectDefinition
      [] gen = "m1" /\ step = "projectile" -> M1ProjectileDefinition
      [] gen = "m1" /\ step = "weapon" -> M1WeaponDefinition
      [] gen = "m2" /\ step = "monster" -> M2MonsterDefinition
      [] gen = "m2" /\ step = "effect" -> M2EffectDefinition
      [] gen = "m2" /\ step = "projectile" -> M2ProjectileDefinition
      [] gen = "m2" /\ step = "weapon" -> M2WeaponDefinition

\* The statement after a lookup.
NextStep(step) ==
    CASE step = "monster" -> "effect"
      [] step = "effect" -> "projectile"
      [] step = "projectile" -> "weapon"
      [] step = "weapon" -> "physics"
      [] step = "physics" -> "serialize"

\* The decoder of a lookup applied to the data found.
Decode(gen, step, data, dbs) ==
    IF step = "physics"
    THEN Try(PhysicsDefinitionsRead(PhysicsFields(gen), Cursor(data), dbs),
             LAMBDA physics_definitions, rest : Ok(physics_definitions))
    ELSE read_definitions(StepSchema(gen, step), data, dbs)

\* A lookup that takes a missing chunk for an empty list of definitions.
LookupOrDefault(cs, gen, step, dbs) ==
    IF ~find(cs, StepTag(gen, step)).ok THEN Ok(<<>>)
    ELSE Decode(gen, step, find(cs, StepTag(gen, step)).val, dbs)

\* Chunk::find(chunks, TAG).and_then(|x| decoder(x, &namedbs))
LookupAndDecode(cs, gen, step, dbs) ==
    IF ~find(cs, StepTag(gen, step)).ok THEN find(cs, StepTag(gen, step))
    ELSE Decode(gen, step, find(cs, StepTag(gen, step)).val, dbs)

\* The chunks of every subfile, one subfile after the other.
RECURSIVE all_files(_)
all_files(wad) ==
    IF wad.files = <<>> THEN <<>>
    ELSE Head(wad.files) \o all_files([wad EXCEPT !.files = Tail(@)])

\* physics_wad.files[0], on a Wad with a subfile.
first_file(wad) == wad.files[1]

\* A thread that panicked: the process ends with a failure and the message.
Panicked(msg) == Err(<<msg, "panic">>)

\* struct Physics
Physics(ds) ==
    [monster_definitions |-> ds[1],
     effect_definitions |-> ds[2],
     projectile_definitions |-> ds[3],
     weapon_definitions |-> ds[4],
     physics |-> ds[5]]

\* Big-endian bytes of a number, as read16 and read32 take them.
Be16(n) == <<n \div 256, n % 256>>
Be32(n) == <<n \div 16777216, (n \div 65536) % 256, (n \div 256) % 256, n % 256>>

Zeros(n) == [j \in 1..n |-> 0]

RECURSIVE Flatten(_)
Flatten(ss) == IF ss = <<>> THEN <<>> ELSE Head(ss) \o Flatten(Tail(ss))

\* The bytes read_m1_chunks reads one chunk from: the tag, four bytes that
\* are skipped, the record count, the record size and the data.
EncodeM1Chunk(c, size) ==
    c.kind \o Zeros(4)
      \o (IF Len(c.data) % size = 0
          THEN Be16(Len(c.data) \div size) \o Be16(size)
          ELSE Be16(1) \o Be16(Len(c.data)))
      \o c.data

\* The bytes read_m2_chunks reads a chunk list from, the first chunk at
\* offset: per chunk the tag, the offset of the next one (0 on the last),
\* the length, the zero word and the data.
RECURSIVE EncodeM2Chunks(_, _)
EncodeM2Chunks(cs, offset) ==
    IF cs = <<>> THEN <<>>
    ELSE Head(cs).kind
           \o Be32(IF Len(cs) = 1 THEN 0 ELSE offset + 16 + Len(Head(cs).data))
           \o Be32(Len(Head(cs).data)) \o Be32(0) \o Head(cs).data
           \o EncodeM2Chunks(Tail(cs), offset + 16 + Len(Head(cs).data))

\* The bytes of the header fields read_wad reads, and of a directory entry
\* (offset, length, index).
WadHeaderSize == 2 + 2 + MAXIMUM_WADFILE_NAME_LENGTH + 4 + 4 + 2 + 2 + 2 + 2 + 4
WadEntrySize == 4 + 4 + 2

\* The offset of subfile k behind the header.
RECURSIVE SubfileOffset(_, _)
SubfileOffset(subfiles, k) ==
    IF k = 1 THEN WadHeaderSize
    ELSE SubfileOffset(subfiles, k - 1) + Len(subfiles[k - 1])

\* The bytes read_wad reads a Wad from: the header with the given version,
\* directory entry base size and application specific size, the subfiles,
\* and the directory, the entries stride bytes apart: entry k (offset,
\* length, then the index and zeros up to the stride) is the one of subfile
\* slots[k].
EncodeWadSlots(version, base, app, stride, subfiles, slots) ==
    Be16(version) \o Be16(1) \o Zeros(MAXIMUM_WADFILE_NAME_LENGTH) \o Be32(0)
      \o Be32(WadHeaderSize + Len(Flatten(subfiles)))
      \o Be16(Len(slots)) \o Be16(app) \o Be16(16) \o Be16(base) \o Be32(0)
      \o Flatten(subfiles)
      \o Flatten([k \in 1..Len(slots) |->
                     SubSeq(Be32(SubfileOffset(subfiles, slots[k]))
                              \o Be32(Len(subfiles[slots[k]]))
                              \o Be16(k - 1) \o Zeros(stride),
                            1, stride)])

\* One entry per subfile, in their order.
EncodeWadAs(version, base, app, stride, subfiles) ==
    EncodeWadSlots(version, base, app, stride, subfiles,
                   [k \in 1..Len(subfiles) |-> k])

\* A version 2 file with entries of WadEntrySize bytes.
EncodeWad(subfiles) == EncodeWadAs(2, WadEntrySize, 0, WadEntrySize, subfiles)

\* Three short subfiles.
ShortSubfiles ==
    <<EncodeM2Chunks(<<Chunk(M2_MONSTER_PHYSICS_TAG, Payload("ramp", 3))>>, 0),
      EncodeM2Chunks(<<Chunk(M2_EFFECT_PHYSICS_TAG, Payload("low", 2)),
                       Chunk(M2_PHYSICS_PHYSICS_TAG, <<>>)>>, 0),
      EncodeM2Chunks(<<Chunk(M2_WEAPON_PHYSICS_TAG, Payload("ones", 1))>>, 0)>>

\* Headers of the short WADs: the version, the declared base size and the
\* application specific size.
WadLayouts == {0, 1, 2, 4} \X {8, 10, 12} \X {0, 2}

\* The stride of a directory: 8 bytes plus the application specific size up
\* to version 1, the declared base size plus the application specific size
\* after it.
LayoutStride(l) == (IF l[1] <= 1 THEN 8 ELSE l[2]) + l[3]

\* A directory of n entries that name the three short subfiles in turn.
SlotFile(n) ==
    EncodeWadSlots(2, WadEntrySize, 0, WadEntrySize, ShortSubfiles,
                   [k \in 1..n |-> ((k - 1) % 3) + 1])

\* Directories below, at and above MAXIMUM_DIRECTORY_ENTRIES_PER_FILE
\* entries.
SlotCounts == {0, 1, 2, 63, 64, 65, 66}

\* A file without its last n bytes.
CutOff(f, n) == SubSeq(f, 1, Len(f) - n)

\* The directories, and directories that end within an entry: within its
\* offset, and behind its offset within its length.
SlotFiles ==
    {SlotFile(n) : n \in SlotCounts}
        \cup {CutOff(SlotFile(2), 8), CutOff(SlotFile(2), 4)}

\* One chunk of a subfile as it is written: the tag, the offset of the next
\* chunk, the length of the data, the four bytes of the unknown field and
\* the data.
M2Record(kind, next, unknown, data) ==
    [kind |-> kind, next |-> next, unknown |-> unknown, data |-> data]

EncodeM2Record(d) ==
    d.kind \o Be32(d.next) \o Be32(Len(d.data)) \o d.unknown \o d.data

EncodeM2Records(ds) == Flatten([j \in 1..Len(ds) |-> EncodeM2Record(ds[j])])

\* A subfile of three chunks at the offsets 0, 19 and 37, the unknown field
\* of chunk j (from 1; 0 for none) holding the bytes v.
ThreeChunks(j, v) ==
    <<M2Record(M2_MONSTER_PHYSICS_TAG, 19, IF j = 1 THEN v ELSE Zeros(4), Payload("ramp", 3)),
      M2Record(M2_EFFECT_PHYSICS_TAG, 37, IF j = 2 THEN v ELSE Zeros(4), Payload("low", 2)),
      M2Record(M2_PHYSICS_PHYSICS_TAG, 0, IF j = 3 THEN v ELSE Zeros(4), <<>>)>>

\* A WAD whose last subfile has a nonzero unknown field in chunk j, alone
\* or behind a short subfile.
UnknownFile(j, v, behind) ==
    EncodeWad((IF behind THEN <<ShortSubfiles[1]>> ELSE <<>>)
                \o <<EncodeM2Records(ThreeChunks(j, v))>>)

UnknownFiles ==
    {UnknownFile(j, v, behind) :
        j \in 0..3, v \in {<<0, 0, 0, 1>>, <<128, 0, 0, 0>>}, behind \in BOOLEAN}

\* The three chunks at the offsets 0, 19 and 37 with the next-offset fields
\* nx, in a WAD of one subfile.
NextFile(nx) ==
    EncodeWad(<<EncodeM2Records(
        <<M2Record(M2_MONSTER_PHYSICS_TAG, nx[1], Zeros(4), Payload("ramp", 3)),
          M2Record(M2_EFFECT_PHYSICS_TAG, nx[2], Zeros(4), Payload("low", 2)),
          M2Record(M2_PHYSICS_PHYSICS_TAG, nx[3], Zeros(4), <<>>)>>)>>)

\* Next-offset fields: the offsets of the chunks behind, all zero, past the
\* second chunk, and past the end of the subfile.
NextOffsets == {<<19, 37, 0>>, <<0, 0, 0>>, <<19, 0, 0>>, <<37, 0, 0>>, <<100, 0, 0>>}

NextFiles == {NextFile(nx) : nx \in NextOffsets}

\* A WAD of the three short subfiles whose first four bytes are a tag of the
\* older dialect.
TaggedWad(t) == t \o SubSeq(EncodeWad(ShortSubfiles), 5, Len(EncodeWad(ShortSubfiles)))

TaggedWads ==
    {TaggedWad(t) : t \in {M1_MONSTER_PHYSICS_TAG, M1_EFFECT_PHYSICS_TAG,
                           M1_PROJECTILE_PHYSICS_TAG, M1_PHYSICS_PHYSICS_TAG,
                           M1_WEAPON_PHYSICS_TAG}}

\* The short subfiles under every header, the directory laid out at the
\* stride of the header.
WadLayoutFiles ==
    {EncodeWadAs(l[1], l[2], l[3], LayoutStride(l), ShortSubfiles) : l \in WadLayouts}

\* What a file holds for a lookup: no chunk, a chunk its decoder takes, or
\* a chunk its decoder refuses.
Statuses == {"absent", "valid", "malformed"}
Plans == [{ConvertSteps[i] : i \in 1..Len(ConvertSteps)} -> Statuses]
AllValid == [st \in {ConvertSteps[i] : i \in 1..Len(ConvertSteps)} |-> "valid"]

\* Whole records (blocks) of the valid chunk of a lookup.
SampleRecords(step) ==
    CASE step = "monster" -> 1
      [] step = "effect" -> 2
      [] step = "projectile" -> 0
      [] step = "weapon" -> 1
      [] step = "physics" -> 2

UnitSize(gen, step) ==
    IF step = "physics" THEN PhysicsBlockSize(gen) ELSE StepSchema(gen, step).size

\* The data of the chunk of a lookup: the valid one is whole records, the
\* malformed one a byte more for a list and a single block for the movement
\* profile.
SampleData(gen, step, status) ==
    Payload("ramp",
            IF status = "valid" THEN SampleRecords(step) * UnitSize(gen, step)
            ELSE IF step = "physics" THEN UnitSize(gen, step)
            ELSE SampleRecords(step) * UnitSize(gen, step) + 1)

\* The order of the chunks in a file.
FileOrder == <<"monster", "effect", "projectile", "physics", "weapon">>

SampleChunks(gen, plan) ==
    [i \in 1..Len(SelectSeq(FileOrder, LAMBDA st : plan[st] # "absent")) |->
        Chunk(StepTag(gen, SelectSeq(FileOrder, LAMBDA st : plan[st] # "absent")[i]),
              SampleData(gen, SelectSeq(FileOrder, LAMBDA st : plan[st] # "absent")[i],
                         plan[SelectSeq(FileOrder, LAMBDA st : plan[st] # "absent")[i]]))]

\* A file of the older dialect with the chunks of a plan.
M1File(plan) ==
    Flatten([i \in 1..Len(SampleChunks("m1", plan)) |->
                EncodeM1Chunk(SampleChunks("m1", plan)[i],
                              UnitSize("m1", SelectSeq(FileOrder,
                                  LAMBDA st : plan[st] # "absent")[i]))])

\* A WAD whose first subfile holds the chunks of a plan, alone or followed
\* by a subfile with all five chunks.
M2File(plan, more) ==
    EncodeWad(<<EncodeM2Chunks(SampleChunks("m2", plan), 0)>>
                \o (IF more THEN <<EncodeM2Chunks(SampleChunks("m2", AllValid), 0)>>
                    ELSE <<>>))

\* One record of a file of the older dialect as it is written: the tag,
\* the four bytes that are skipped, the count, the size and the data.
M1Record(kind, unused, count, size) ==
    [kind |-> kind, unused |-> unused, count |-> count, size |-> size,
     data |-> Payload("ramp", count * size)]

EncodeM1Record(d) ==
    d.kind \o d.unused \o Be16(d.count) \o Be16(d.size) \o d.data

M1Records ==
    {M1Record(M1_MONSTER_PHYSICS_TAG, <<0, 0, 0, 0>>, 1, 3),
     M1Record(M1_MONSTER_PHYSICS_TAG, <<255, 255, 255, 255>>, 1, 3),
     M1Record(M1_EFFECT_PHYSICS_TAG, <<1, 2, 3, 4>>, 2, 2),
     M1Record(M1_PHYSICS_PHYSICS_TAG, <<0, 0, 0, 0>>, 0, 7),
     M1Record(M1_WEAPON_PHYSICS_TAG, <<128, 0, 0, 0>>, 3, 0)}

\* The record lists of the short files: up to two records.
M1Streams ==
    {<<>>} \cup {<<a>> : a \in M1Records} \cup {<<a, b>> : a \in M1Records, b \in M1Records}

\* The bytes of a record list, followed by the first three bytes of a tag.
M1StreamBytes(ds) ==
    Flatten([j \in 1..Len(ds) |-> EncodeM1Record(ds[j])]) \o <<109, 111, 110>>

\* Short files of the older dialect: every record list cut at every length.
M1StreamFiles ==
    UNION {{SubSeq(M1StreamBytes(ds), 1, p) : p \in 0..Len(M1StreamBytes(ds))} :
           ds \in M1Streams}

\* The WAD of n directory entries with the subfile count c in its header.
CountFile(n, c) ==
    [j \in 1..Len(SlotFile(n)) |->
        IF j = 77 THEN Be16(c)[1] ELSE IF j = 78 THEN Be16(c)[2] ELSE SlotFile(n)[j]]

WadCounts == {0, 1, 3, 65535}

CountedSlots == {0, 2, 3}

CountFiles == {CountFile(n, c) : n \in CountedSlots, c \in WadCounts}

Files ==
    {M1File(plan) : plan \in Plans}
        \cup {M2File(plan, more) : plan \in Plans, more \in BOOLEAN}
        \cup {EncodeWad(<<>>)}
        \cup M1StreamFiles
        \cup WadLayoutFiles
        \cup SlotFiles
        \cup UnknownFiles
        \cup NextFiles
        \cup TaggedWads
        \cup CountFiles

Init == \E f \in Files, dbs \in NameDbsChoices : Idle(Cursor(f), dbs)

\* The function returns r from the statement it is at.
Return(r) ==
    /\ result' = r
    /\ pc' = "done"
    /\ call' = [call EXCEPT !.returned_from = pc]

\* m1::convert_physics or m2::convert_physics is called on the file.
ConvertPhysics(gen) ==
    /\ pc = "start"
    /\ call' = [op |-> "convert_physics", gen |-> gen, wad |-> None, i |-> 0,
                subfile |-> Cursor(<<>>), next_offset |-> Zero32,
                returned_from |-> ""]
    /\ pc' = IF gen = "m1" THEN "read_m1_chunks" ELSE "read_wad"
    /\ UNCHANGED <<input, namedbs, chunks, physics_wad, definitions, result, stdout>>

\* Chunk::read_m1_chunks: one turn of its loop.
M1ReadChunk ==
    /\ pc = "read_m1_chunks"
    /\ \E r \in {read_m1_chunk(input)} :
           IF ~r.ok
           THEN Return(Err(r.err)) /\ UNCHANGED <<input, chunks>>
           ELSE IF r.val = None
           THEN pc' = "monster" /\ UNCHANGED <<input, chunks, call, result>>
           ELSE /\ chunks' = Append(chunks, r.val[1])
                /\ input' = r.input
                /\ UNCHANGED <<pc, call, result>>
    /\ UNCHANGED <<namedbs, physics_wad, definitions, stdout>>

\* Wad::read_wad: the dialect test and the header.
ReadWadHeader ==
    /\ pc = "read_wad"
    /\ \E r \in {read_wad_header(input)} :
           IF ~r.ok
           THEN Return(Err(r.err)) /\ UNCHANGED input
           ELSE /\ call' = [call EXCEPT !.wad = r.val, !.i = 0]
                /\ input' = r.input
                /\ pc' = "directory"
                /\ UNCHANGED result
    /\ UNCHANGED <<namedbs, chunks, physics_wad, definitions, stdout>>

\* Wad::read_wad: one turn of the directory loop, up to the call of
\* read_m2_chunks on the subfile; after the loop the Wad is returned.
ReadWadEntry ==
    /\ pc = "directory"
    /\ IF call.i = MAXIMUM_DIRECTORY_ENTRIES_PER_FILE
       THEN /\ physics_wad' = Some(call.wad)
            /\ pc' = "monster"
            /\ UNCHANGED <<input, chunks, call, result>>
       ELSE \E r \in {read_wad_entry(input, call.wad, call.i)} :
                IF ~r.ok
                THEN Return(Err(r.err)) /\ UNCHANGED <<input, chunks, physics_wad>>
                ELSE IF r.val = None
                THEN /\ physics_wad' = Some(call.wad)
                     /\ pc' = "monster"
                     /\ UNCHANGED <<input, chunks, call, result>>
                ELSE /\ call' = [call EXCEPT !.subfile = Cursor(r.val[1]),
                                             !.next_offset = Zero32]
                     /\ chunks' = <<>>
                     /\ input' = r.input
                     /\ pc' = "read_m2_chunks"
                     /\ UNCHANGED <<physics_wad, result>>
    /\ UNCHANGED <<namedbs, definitions, stdout>>

\* Chunk::read_m2_chunks on the subfile: one turn of its loop; at the break
\* the chunk list is pushed onto the files of the Wad.
ReadM2Chunk ==
    /\ pc = "read_m2_chunks"
    /\ \E r \in {read_m2_chunk(call.subfile, call.next_offset, Len(chunks))} :
           IF ~r.ok
           THEN Return(Err(r.err)) /\ UNCHANGED chunks
           ELSE IF r.val = None
           THEN /\ call' = [call EXCEPT !.wad.files = Append(@, chunks), !.i = @ + 1]
                /\ pc' = "directory"
                /\ UNCHANGED <<chunks, result>>
           ELSE /\ chunks' = Append(chunks, r.val[1].chunk)
                /\ call' = [call EXCEPT !.subfile = r.input,
                                        !.next_offset = r.val[1].next_offset]
                /\ UNCHANGED <<pc, result>>
    /\ UNCHANGED <<input, namedbs, physics_wad, definitions, stdout>>

\* One of the five lookups with its decoder, and the ? on its result.
Lookup(step) ==
    /\ pc = step
    /\ IF call.gen = "m2" /\ physics_wad[1].files = <<>>
       THEN /\ Return(Panicked("index out of bounds: the len is 0 but the index is 0"))
            /\ UNCHANGED definitions
       ELSE \E r \in {LookupAndDecode(IF call.gen = "m1" THEN chunks
                                      ELSE first_file(physics_wad[1]),
                                      call.gen, step, namedbs)} :
                IF r.ok
                THEN /\ definitions' = Append(definitions, r.val)
                     /\ pc' = NextStep(step)
                     /\ UNCHANGED <<call, result>>
                ELSE Return(Err(r.err)) /\ UNCHANGED definitions
    /\ UNCHANGED <<input, namedbs, chunks, physics_wad, stdout>>

\* serde_json::to_writer_pretty(std::io::stdout(), &physics) and Ok(()).
Serialize ==
    /\ pc = "serialize"
    /\ stdout' = Append(stdout, Physics(definitions))
    /\ Return(Ok(<<>>))
    /\ UNCHANGED <<input, namedbs, chunks, physics_wad, definitions>>

Next ==
    \/ \E gen \in {"m1", "m2"} : ConvertPhysics(gen)
    \/ M1ReadChunk
    \/ ReadWadHeader
    \/ ReadWadEntry
    \/ ReadM2Chunk
    \/ \E i \in 1..Len(ConvertSteps) : Lookup(ConvertSteps[i])
    \/ Serialize

Spec == Init /\ [][Next]_vars

(***************************************************************************)
(* Properties of convert_physics                                           *)
(***************************************************************************)
\* convert_physics has returned after its container was read, from one of
\* the five lookups or after the serializer.
ConvertDone ==
    /\ call.op = "convert_physics"
    /\ pc = "done"
    /\ call.returned_from \in {ConvertSteps[i] : i \in 1..Len(ConvertSteps)} \cup {"serialize"}
    /\ call.gen = "m2" => physics_wad[1].files # <<>>

\* The chunk list the lookups search.
LookedUp == IF call.gen = "m1" THEN chunks ELSE physics_wad[1].files[1]

Lacks(step) ==
    \A i \in 1..Len(LookedUp) : LookedUp[i].kind # StepTag(call.gen, step)

FirstData(step) ==
    LookedUp[CHOOSE i \in 1..Len(LookedUp) :
                 /\ LookedUp[i].kind = StepTag(call.gen, step)
                 /\ \A j \in 1..(i - 1) : LookedUp[j].kind # StepTag(call.gen, step)].data

\* The first chunk with the tag is one its decoder refuses: not whole
\* records, or less than the two blocks of a movement profile.
Malformed(step) ==
    /\ ~Lacks(step)
    /\ IF step = "physics"
       THEN Len(FirstData(step)) < 2 * PhysicsBlockSize(call.gen)
       ELSE Len(FirstData(step)) % StatedRecordSize(StepSchema(call.gen, step).id) # 0

FailsAt(i) == Lacks(ConvertSteps[i]) \/ Malformed(ConvertSteps[i])

FirstFailure(i) == FailsAt(i) /\ \A j \in 1..(i - 1) : ~FailsAt(j)

ChunkNotFound(step) ==
    <<"Unable to find chunk of type", from_utf8_lossy(StepTag(call.gen, step))>>

ExpectedError(step) ==
    IF Lacks(step) THEN ChunkNotFound(step)
    ELSE IF step = "physics" THEN IoError.err
    ELSE RecordSizeMismatch(StepSchema(call.gen, step)).err

\* C5: in both convert_physics operations, when one of the five lookups or
\* decoders fails, the operation returns the error of the first one that
\* fails, the lookups after it are not made, no Physics is built and
\* nothing is written to the output; the Physics of the five decoded parts
\* is written, once, only after all five chunks were found and decoded.
C5_AllOrNothing ==
    /\ stdout # <<>> => ConvertDone
    /\ ConvertDone =>
         /\ \A i \in 1..Len(ConvertSteps) :
                FirstFailure(i) =>
                    /\ ~result.ok
                    /\ result.err = ExpectedError(ConvertSteps[i])
                    /\ call.returned_from = ConvertSteps[i]
                    /\ Len(definitions) = i - 1
                    /\ stdout = <<>>
         /\ (\A i \in 1..Len(ConvertSteps) : ~FailsAt(i)) =>
                /\ result = Ok(<<>>)
                /\ Len(definitions) = Len(ConvertSteps)
                /\ stdout = <<Physics(definitions)>>

\* A WAD whose weapon chunk is not whole records: three parts were decoded,
\* the operation failed at the fourth and wrote nothing.
C5_Witness ==
    /\ ConvertDone
    /\ call.gen = "m2"
    /\ Malformed("weapon")
    /\ FirstFailure(4)
    /\ Len(definitions) = 3
    /\ result = RecordSizeMismatch(M2WeaponDefinition)
    /\ stdout = <<>>

FieldTables ==
    {DamageDefinitionFields, AttackDefinitionFields,
     M1MonsterDefinitionFields, M1EffectDefinitionFields,
     M1ProjectileDefinitionFields, M1WeaponDefinitionFields,
     M1PhysicsDefinitionFields,
     M2MonsterDefinitionFields, M2EffectDefinitionFields,
     M2ProjectileDefinitionFields, M2TriggerDefinitionFields,
     M2WeaponDefinitionFields, M2PhysicsDefinitionFields}

\* Every use of decode_flags! in the program: the read of its flag word and
\* its flag names.
FlagLists ==
    UNION {{<<t[i][2], t[i][3]>> :
               i \in {j \in 1..Len(t) : t[j][2] \in {"decode_flags16", "decode_flags32"}}} :
           t \in FieldTables}

FlagBytes == {0, 1, 85, 128, 170, 255}
FlagInputs ==
    {<<a, b, c, d>> : a \in FlagBytes, b \in FlagBytes, c \in FlagBytes, d \in FlagBytes}

InitFlags == \E d \in FlagInputs : Idle(Cursor(d), DefaultNameDbs)

\* flagbit <<= 1 that leaves the mask where it is.
ShlAssignStuck(flagbit, width) == flagbit

\* flagbit <<= 1 on a word of the width of the flag word: the bit shifted
\* out of the word is lost.
ShlAssign(flagbit, width) ==
    IF width = 16 THEN <<0, (flagbit[2] * 2) % 65536>>
    ELSE <<(flagbit[1] * 2 + flagbit[2] \div 32768) % 65536, (flagbit[2] * 2) % 65536>>

\* decode_flags!: let flags = $input; let mut flagbit = 1;
DecodeFlagsEnter(list) ==
    /\ pc = "start"
    /\ \E r \in {IF list[1] = "decode_flags16"
                 THEN Try(read16(input), LAMBDA w, rest : Rd(<<0, w>>, rest))
                 ELSE read32(input)} :
           /\ r.ok
           /\ call' = [op |-> "decode_flags",
                       width |-> IF list[1] = "decode_flags16" THEN 16 ELSE 32,
                       names |-> list[2], flags |-> r.val, flagbit |-> <<0, 1>>,
                       locals |-> <<>>]
           /\ input' = r.input
    /\ pc' = "extract_flags"
    /\ UNCHANGED <<namedbs, chunks, physics_wad, definitions, result, stdout>>

\* extract_flags!: let $nextflag = $flags & $flagbit != 0; $flagbit <<= 1;
ExtractFlag ==
    /\ pc = "extract_flags"
    /\ Len(call.locals) < Len(call.names)
    /\ call' = [call EXCEPT
                  !.locals = Append(@, And32(call.flags, call.flagbit) # Zero32),
                  !.flagbit = ShlAssign(@, call.width)]
    /\ UNCHANGED <<input, namedbs, pc, chunks, physics_wad, definitions, result, stdout>>

\* $Flags { $($flagname),+ }
BuildFlags ==
    /\ pc = "extract_flags"
    /\ Len(call.locals) = Len(call.names)
    /\ result' = Ok([n \in {call.names[i] : i \in 1..Len(call.names)} |->
                        call.locals[CHOOSE i \in 1..Len(call.names) : call.names[i] = n]])
    /\ pc' = "done"
    /\ UNCHANGED <<input, namedbs, call, chunks, physics_wad, definitions, stdout>>

NextFlags ==
    \/ \E list \in FlagLists : DecodeFlagsEnter(list)
    \/ ExtractFlag
    \/ BuildFlags

SpecFlags == InitFlags /\ [][NextFlags]_vars

\* Bit b of the big-endian word of the given width at the start of the byte
\* source, from its bytes.
WordBit(width, b) ==
    (input.data[width \div 8 - b \div 8] \div Pow2(b % 8)) % 2 = 1

\* C11: decode_flags gives the k-th flag name in declaration order (k from
\* 0) exactly the value of bit k of the word read, for every flag list of
\* the program, so that the bits from the number of names on influence no
\* flag; the record decoders compute the flags the same way.
C11_DecodeFlagsBitK ==
    (call.op = "decode_flags" /\ pc = "done") =>
        /\ result.ok
        /\ DOMAIN result.val = {call.names[i] : i \in 1..Len(call.names)}
        /\ \A k \in 0..(Len(call.names) - 1) :
               result.val[call.names[k + 1]] = WordBit(call.width, k)
        /\ result.val = decode_flags(call.flags, call.names)
        /\ input.pos = call.width \div 8

\* The 23 projectile flags of a 32-bit word whose bits 0, 2, 4, 6 of every
\* byte are set: flag 22 is set, flag 21 is not, bits 24..30 are unused.
C11_Witness ==
    /\ call.op = "decode_flags"
    /\ pc = "done"
    /\ call.width = 32
    /\ Len(call.names) = 23
    /\ input.data = <<85, 85, 85, 85>>
    /\ result.val["passes_through_objects"]
    /\ ~result.val["penetrates_media_boundary"]
    /\ result.val["guided"]

(***************************************************************************)
(* Properties of the fixed-point readers                                   *)
(***************************************************************************)
\* The signed value of the 16-bit word at the start of the byte source.
FirstSigned16 == IF input.data[1] >= 128 THEN FirstWord16 - 65536 ELSE FirstWord16

\* The magnitude of the signed 32-bit word at the start of the byte source,
\* for every word but 0x80000000.
FirstMagnitude32 ==
    IF input.data[1] >= 128
    THEN (65535 - FirstWord32Hi) * 65536 + (65536 - FirstWord32Lo)
    ELSE FirstWord32Hi * 65536 + FirstWord32Lo

\* x * 2^k for an f32 x = <<m, e>> whose product is an integer.
Scaled(x, k) == x[1] * Pow2(x[2] + k)

\* C12: the fixed-point readers take the big-endian word as a two's
\* complement signed number before scaling.  read_fx_6_10 yields the signed
\* 16-bit value / 1024 and read_angle the signed 16-bit value * 360 / 512,
\* both exactly; read_fx_16_16 yields the signed 32-bit value / 65536 as an
\* f32: exactly when the value has at most 24 significant bits, and
\* otherwise one of the two neighbouring f32 values.  0x00010000 gives 1.0,
\* 0x0400 gives 1.0, 256 gives 180.0, 0xFFFF0000 gives -1.0 and 0xFC00
\* gives -1.0; a word with the top bit set gives a negative result.
C12_FixedPointSigned ==
    /\ (call.op = "read_fx_6_10" /\ Len(input.data) >= 2) =>
           /\ result.ok
           /\ Scaled(result.val, 10) = FirstSigned16
           /\ (input.data[1] >= 128 => result.val[1] < 0)
           /\ (FirstWord16 = 1024 => result.val = <<1, 0>>)
           /\ (FirstWord16 = 64512 => result.val = <<-1, 0>>)
    /\ (call.op = "read_angle" /\ Len(input.data) >= 2) =>
           /\ result.ok
           /\ Scaled(result.val, 9) = FirstSigned16 * 360
           /\ (input.data[1] >= 128 => result.val[1] < 0)
           /\ (FirstWord16 = 256 => result.val = <<45, 2>>)
    /\ (call.op = "read_fx_16_16" /\ Len(input.data) >= 4) =>
           /\ result.ok
           /\ (input.data[1] >= 128 <=> result.val[1] < 0)
           /\ (input.data = <<128, 0, 0, 0>> => result.val = <<-1, 15>>)
           /\ input.data # <<128, 0, 0, 0>> =>
                  \E k \in {DropBits(FirstMagnitude32)} :
                  \E m \in {IF result.val[1] < 0 THEN -result.val[1] ELSE result.val[1]} :
                      /\ result.val[2] + 16 - k >= 0 \/ m = 0
                      /\ m * Pow2(result.val[2] + 16 - k)
                             \in {FirstMagnitude32 \div Pow2(k),
                                  FirstMagnitude32 \div Pow2(k) + 1}
                      /\ FirstMagnitude32 % Pow2(k) = 0 =>
                             m * Pow2(result.val[2] + 16 - k) = FirstMagnitude32 \div Pow2(k)
           /\ (input.data = <<0, 1, 0, 0>> => result.val = <<1, 0>>)
           /\ (input.data = <<255, 255, 0, 0>> => result.val = <<-1, 0>>)

\* read_fx_6_10 has read 0xFC00 and returned -1.0.
C12_Witness ==
    /\ call.op = "read_fx_6_10"
    /\ Len(input.data) >= 2
    /\ FirstWord16 = 64512
    /\ result = Ok(<<-1, 0>>)
    /\ input.pos = 2

(***************************************************************************)
(* Properties of Chunk::read_m1_chunks                                     *)
(***************************************************************************)
\* The records of ds that lie whole within the first p bytes of its file.
RECURSIVE WholeRecords(_, _)
WholeRecords(ds, p) ==
    IF ds = <<>> \/ Len(EncodeM1Record(Head(ds))) > p THEN <<>>
    ELSE <<Head(ds)>> \o WholeRecords(Tail(ds), p - Len(EncodeM1Record(Head(ds))))

\* The bytes of the file behind its whole records.
Leftover(ds, p) ==
    p - Len(Flatten([j \in 1..Len(WholeRecords(ds, p)) |->
                        EncodeM1Record(WholeRecords(ds, p)[j])]))

\* m1::convert_physics is past its call of read_m1_chunks.
M1ChunksRead ==
    /\ call.op = "convert_physics"
    /\ call.gen = "m1"
    /\ pc \notin {"start", "read_m1_chunks"}

\* C13: read_m1_chunks, on n complete records (tag, 4 skipped bytes, count,
\* size, count * size bytes of data) followed by fewer than 4 bytes, returns
\* exactly those n chunks in read order, each with count * size bytes, and
\* no error, whatever the skipped bytes are; a file that ends after a
\* complete tag and before the end of the record is an error.
C13_ReadM1Chunks ==
    M1ChunksRead =>
        \A ds \in M1Streams :
            (/\ Len(input.data) <= Len(M1StreamBytes(ds))
             /\ input.data = SubSeq(M1StreamBytes(ds), 1, Len(input.data))) =>
                IF Leftover(ds, Len(input.data)) < 4
                THEN /\ call.returned_from # "read_m1_chunks"
                     /\ Len(chunks) = Len(WholeRecords(ds, Len(input.data)))
                     /\ \A j \in 1..Len(chunks) :
                            /\ chunks[j].kind = ds[j].kind
                            /\ chunks[j].data = ds[j].data
                            /\ Len(chunks[j].data) = ds[j].count * ds[j].size
                ELSE /\ pc = "done"
                     /\ call.returned_from = "read_m1_chunks"
                     /\ ~result.ok
                     /\ result.err[1] \in {"unable to read a chunk",
                                           "unable to read a chunk of a subfile of the WAD"}
                     /\ stdout = <<>>

\* Two records, the skipped bytes of the first all ones, and three bytes
\* left over: both chunks were returned and the first lookup was made.
C13_Witness ==
    /\ M1ChunksRead
    /\ input.data = M1StreamBytes(<<M1Record(M1_MONSTER_PHYSICS_TAG, <<255, 255, 255, 255>>, 1, 3),
                                    M1Record(M1_EFFECT_PHYSICS_TAG, <<1, 2, 3, 4>>, 2, 2)>>)
    /\ chunks = <<Chunk(M1_MONSTER_PHYSICS_TAG, Payload("ramp", 3)),
                  Chunk(M1_EFFECT_PHYSICS_TAG, Payload("ramp", 4))>>
    /\ call.returned_from = "monster"
    /\ result = RecordSizeMismatch(M1MonsterDefinition)

(***************************************************************************)
(* Properties of Wad::read_wad                                             *)
(***************************************************************************)
\* The header fields of the file, from its bytes.
HeaderVersion == input.data[1] * 256 + input.data[2]
HeaderAppSize == input.data[79] * 256 + input.data[80]
HeaderBaseSize == input.data[83] * 256 + input.data[84]

\* The chunk lists of the three short subfiles.
ShortSubfileChunks ==
    <<<<Chunk(M2_MONSTER_PHYSICS_TAG, Payload("ramp", 3))>>,
      <<Chunk(M2_EFFECT_PHYSICS_TAG, Payload("low", 2)), Chunk(M2_PHYSICS_PHYSICS_TAG, <<>>)>>,
      <<Chunk(M2_WEAPON_PHYSICS_TAG, Payload("ones", 1))>> >>

\* C14: in Wad::read_wad the directory entry base size of a header with
\* version <= 1 is 8 whatever the header declares, and the declared value
\* for a version above 1; every slot of the directory is read at the stride
\* of that base size plus the application specific size, so that a
\* directory laid out at this stride gives its subfiles in order.
C14_EffectiveBaseSize ==
    /\ (call.op = "convert_physics" /\ pc \in {"directory", "read_m2_chunks"}) =>
           /\ call.wad.wad_version = HeaderVersion
           /\ call.wad.application_specific_directory_data_size = HeaderAppSize
           /\ call.wad.directory_entry_base_size =
                  IF HeaderVersion <= 1 THEN 8 ELSE HeaderBaseSize
    /\ (call.op = "convert_physics" /\ call.gen = "m2" /\ physics_wad # None) =>
           /\ physics_wad[1].directory_entry_base_size =
                  IF HeaderVersion <= 1 THEN 8 ELSE HeaderBaseSize
           /\ \A l \in WadLayouts :
                  input.data = EncodeWadAs(l[1], l[2], l[3], LayoutStride(l), ShortSubfiles)
                      => physics_wad[1].files = ShortSubfileChunks

\* A version 1 header that declares 12 bytes, with 2 application specific
\* bytes: the base size is 8 and the three subfiles were read at stride 10.
C14_Witness ==
    /\ call.op = "convert_physics"
    /\ call.gen = "m2"
    /\ physics_wad # None
    /\ input.data = EncodeWadAs(1, 12, 2, 10, ShortSubfiles)
    /\ physics_wad[1].directory_entry_base_size = 8
    /\ physics_wad[1].files = ShortSubfileChunks

\* The chunk lists of the first n slots of a directory that names the three
\* short subfiles in turn.
SlotChunks(n) == [k \in 1..n |-> ShortSubfileChunks[((k - 1) % 3) + 1]]

\* C15: Wad::read_wad visits the slots 0, 1, 2, ... of the directory in
\* ascending order, one stride apart, and never more than 64 of them; the
\* first slot whose offset cannot be read ends the scan without an error,
\* with the subfiles read so far: the Wad holds at most 64 subfiles, in
\* slot order.
C15_DirectoryScan ==
    /\ (call.op = "convert_physics" /\ pc \in {"directory", "read_m2_chunks"}) =>
           /\ call.i <= MAXIMUM_DIRECTORY_ENTRIES_PER_FILE
           /\ Len(call.wad.files) = call.i
           /\ pc = "read_m2_chunks" => call.i < MAXIMUM_DIRECTORY_ENTRIES_PER_FILE
    /\ (call.op = "convert_physics" /\ call.gen = "m2" /\ physics_wad # None) =>
           Len(physics_wad[1].files) <= MAXIMUM_DIRECTORY_ENTRIES_PER_FILE
    /\ (call.op = "convert_physics" /\ call.gen = "m2" /\ pc = "done") =>
           /\ \A n \in SlotCounts :
                  input.data = SlotFile(n) =>
                      /\ physics_wad # None
                      /\ physics_wad[1].files =
                             SlotChunks(IF n < MAXIMUM_DIRECTORY_ENTRIES_PER_FILE THEN n
                                        ELSE MAXIMUM_DIRECTORY_ENTRIES_PER_FILE)
           /\ input.data = CutOff(SlotFile(2), 8) =>
                  /\ physics_wad # None
                  /\ physics_wad[1].files = SlotChunks(1)

\* A directory of 66 entries: the Wad holds the subfiles of the first 64.
C15_Witness ==
    /\ call.op = "convert_physics"
    /\ call.gen = "m2"
    /\ pc = "done"
    /\ input.data = SlotFile(66)
    /\ physics_wad # None
    /\ Len(physics_wad[1].files) = 64
    /\ physics_wad[1].files = SlotChunks(64)

NextFileChunks ==
    <<Chunk(M2_MONSTER_PHYSICS_TAG, Payload("ramp", 3)),
      Chunk(M2_EFFECT_PHYSICS_TAG, Payload("low", 2)),
      Chunk(M2_PHYSICS_PHYSICS_TAG, <<>>)>>

\* The chunk of NextFile that starts at offset o (0 for none).
ChunkAt(o) == IF o = 0 THEN 1 ELSE IF o = 19 THEN 2 ELSE IF o = 37 THEN 3 ELSE 0

\* The chunks of NextFile(nx) from chunk j on, when a header is read at the
\* next offset of the chunk before it, and behind its data when that is 0.
RECURSIVE Linked(_, _)
Linked(nx, j) ==
    IF j = 0 THEN <<>>
    ELSE <<NextFileChunks[j]>>
           \o Linked(nx, ChunkAt(IF nx[j] = 0 THEN <<19, 37, 53>>[j] ELSE nx[j]))

\* C17 as stated: the next-offset field of a chunk header is not used for
\* navigation; the header of chunk n+1 is read at the byte behind the data
\* of chunk n, so that subfiles that differ only in their next-offset
\* fields yield the same chunk list.
C17_NextOffsetUnused ==
    (call.op = "convert_physics" /\ call.gen = "m2" /\ physics_wad # None) =>
        \A nx \in NextOffsets :
            input.data = NextFile(nx) => physics_wad[1].files = <<NextFileChunks>>

\* C17, amended: a nonzero next-offset field is where read_m2_chunks seeks
\* to before it reads the next header; only behind a chunk whose next
\* offset is 0, and for the first chunk, the header is read where the last
\* read ended.  Subfiles that differ only in their next-offset fields yield
\* the same chunk list when every nonzero field is the offset of the byte
\* behind the data of its chunk, and different ones otherwise.
C17_NextOffsetSeeks ==
    (call.op = "convert_physics" /\ call.gen = "m2" /\ physics_wad # None) =>
        /\ \A nx \in NextOffsets :
               input.data = NextFile(nx) => physics_wad[1].files = <<Linked(nx, 1)>>
        /\ input.data \in {NextFile(<<19, 37, 0>>), NextFile(<<0, 0, 0>>), NextFile(<<19, 0, 0>>)}
               => physics_wad[1].files = <<NextFileChunks>>
        /\ input.data = NextFile(<<37, 0, 0>>)
               => physics_wad[1].files = <<<<NextFileChunks[1], NextFileChunks[3]>>>>
        /\ input.data = NextFile(<<100, 0, 0>>)
               => physics_wad[1].files = <<<<NextFileChunks[1]>>>>

\* The first chunk names the offset of the third as its next offset: the
\* second chunk is not in the chunk list.
C17_Witness ==
    /\ call.op = "convert_physics"
    /\ call.gen = "m2"
    /\ physics_wad # None
    /\ input.data = NextFile(<<37, 0, 0>>)
    /\ physics_wad[1].files =
           <<<<Chunk(M2_MONSTER_PHYSICS_TAG, Payload("ramp", 3)),
               Chunk(M2_PHYSICS_PHYSICS_TAG, <<>>)>>>>

(***************************************************************************)
(* physics.rs: is_m1_physics on its own                                    *)
(***************************************************************************)
TenTags ==
    {M1_MONSTER_PHYSICS_TAG, M1_EFFECT_PHYSICS_TAG, M1_PROJECTILE_PHYSICS_TAG,
     M1_PHYSICS_PHYSICS_TAG, M1_WEAPON_PHYSICS_TAG,
     M2_MONSTER_PHYSICS_TAG, M2_EFFECT_PHYSICS_TAG, M2_PROJECTILE_PHYSICS_TAG,
     M2_PHYSICS_PHYSICS_TAG, M2_WEAPON_PHYSICS_TAG}

\* The tags of both dialects, each also with one byte one higher, whole and
\* cut short, followed by nothing or by three bytes.
PeekInputs ==
    {SubSeq([t EXCEPT ![k] = @ + d], 1, n) \o more :
        t \in TenTags, k \in 1..4, d \in {0, 1}, n \in 0..4,
        more \in {<<>>, <<0, 0, 1>>}}

\* The byte source at its start, or two bytes into it.
InitPeek ==
    \E d \in PeekInputs, p \in {0, 2} :
        Idle([data |-> SubSeq(<<112, 104>>, 1, p) \o d, pos |-> p], DefaultNameDbs)

CallIsM1Physics ==
    /\ pc = "start"
    /\ call' = [op |-> "is_m1_physics", pos |-> input.pos]
    /\ pc' = "done"
    /\ \E r \in {is_m1_physics(input)} :
           /\ result' = IF r.ok THEN Ok(r.val) ELSE Err(r.err)
           /\ input' = IF r.ok THEN r.input ELSE input
    /\ UNCHANGED <<namedbs, chunks, physics_wad, definitions, stdout>>

NextPeek == CallIsM1Physics

SpecPeek == InitPeek /\ [][NextPeek]_vars

\* C18: is_m1_physics returns true exactly when the four bytes at the read
\* position are one of mons, effe, proj, phys, weap, and false for every
\* other four bytes, and leaves the read position where it was before the
\* call; with fewer than four bytes it fails.
C18_IsM1Physics ==
    call.op = "is_m1_physics" =>
        IF Len(input.data) - call.pos >= 4
        THEN /\ result.ok
             /\ result.val <=>
                    SubSeq(input.data, call.pos + 1, call.pos + 4) \in
                        {<<109, 111, 110, 115>>, <<101, 102, 102, 101>>,
                         <<112, 114, 111, 106>>, <<112, 104, 121, 115>>,
                         <<119, 101, 97, 112>>}
             /\ input.pos = call.pos
        ELSE ~result.ok

\* "weap" two bytes into the byte source: true, and the position is 2 again.
C18_Witness ==
    /\ call.op = "is_m1_physics"
    /\ input.data = <<112, 104, 119, 101, 97, 112, 0, 0, 1>>
    /\ call.pos = 2
    /\ result = Ok(TRUE)
    /\ input.pos = 2

(***************************************************************************)
(* Properties of the dialect test                                          *)
(***************************************************************************)
\* The file starts with one of the five tags of the older dialect.
StartsWithM1Tag ==
    /\ Len(input.data) >= 4
    /\ SubSeq(input.data, 1, 4) \in
           {<<109, 111, 110, 115>>, <<101, 102, 102, 101>>, <<112, 114, 111, 106>>,
            <<112, 104, 121, 115>>, <<119, 101, 97, 112>>}

\* C19: Wad::read_wad rejects every file whose first 4 bytes are one of the
\* five tags of the older dialect with the not-a-WAD error, before it reads
\* a header field, a directory entry or a subfile.
C19_ReadWadRejectsM1 ==
    (/\ call.op = "convert_physics"
     /\ call.gen = "m2"
     /\ pc \notin {"start", "read_wad"}
     /\ StartsWithM1Tag) =>
        /\ pc = "done"
        /\ call.returned_from = "read_wad"
        /\ result = Err(<<"this is a Marathon 1 physics file, not a WAD!", "">>)
        /\ input.pos = 0
        /\ call.wad = None
        /\ call.i = 0
        /\ chunks = <<>>
        /\ physics_wad = None
        /\ stdout = <<>>

\* A WAD of three subfiles but for its first four bytes, which are "phys".
C19_Witness ==
    /\ call.op = "convert_physics"
    /\ call.gen = "m2"
    /\ pc = "done"
    /\ input.data = TaggedWad(<<112, 104, 121, 115>>)
    /\ result = Err(<<"this is a Marathon 1 physics file, not a WAD!", "">>)
    /\ input.pos = 0

\* m1::convert_physics has returned on a WAD: a file with a whole header
\* that does not start with a tag of the older dialect.
M1DoneOnWad ==
    /\ call.op = "convert_physics"
    /\ call.gen = "m1"
    /\ pc = "done"
    /\ Len(input.data) >= WadHeaderSize
    /\ ~StartsWithM1Tag

MaxLines == 3
MaxIndex == 6

White == {" ", "\t"}

\* str::trim: the line without its leading and trailing white space.
trim(line) ==
    LET black == {i \in 1..Len(line) : line[i] \notin White}
    IN IF black = {}
       THEN <<>>
       ELSE SubSeq(line,
                   CHOOSE i \in black : \A j \in black : i <= j,
                   CHOOSE i \in black : \A j \in black : j <= i)

\* The closure of NameDb::new: a blank line is a gap.
name_of_line(line) ==
    IF trim(line) = <<>> THEN None ELSE Some(trim(line))

\* NameDb::new(base_path, my_name); a directory is modelled by the one name
\* file it holds, every other file is NotFound.  (Other errors of opening
\* and reading the file are not modelled.)
NameDb_new(base_path, my_name) ==
    IF base_path.file = my_name
    THEN [names |-> [i \in 1..Len(base_path.lines) |->
                        name_of_line(base_path.lines[i])]]
    ELSE EmptyNameDb

\* NameDbs::new(namedb_path): nine categories from their files, the weapon
\* classes from Default::default() in both cases.
NameDbs_new(namedb_path) ==
    IF namedb_path = None
    THEN DefaultNameDbs
    ELSE [DefaultNameDbs EXCEPT
            !.monster_class_names = NameDb_new(namedb_path[1], "monster_class_names.txt"),
            !.monster_names       = NameDb_new(namedb_path[1], "monster_names.txt"),
            !.projectile_names    = NameDb_new(namedb_path[1], "projectile_names.txt"),
            !.weapon_names        = NameDb_new(namedb_path[1], "weapon_names.txt"),
            !.item_names          = NameDb_new(namedb_path[1], "item_names.txt"),
            !.effect_names        = NameDb_new(namedb_path[1], "effect_names.txt"),
            !.damage_type_names   = NameDb_new(namedb_path[1], "damage_type_names.txt"),
            !.collection_names    = NameDb_new(namedb_path[1], "collection_names.txt"),
            !.sound_names         = NameDb_new(namedb_path[1], "sound_names.txt")]

Categories ==
    {"monster_class_names", "monster_names", "projectile_names",
     "weapon_names", "item_names", "effect_names", "damage_type_names",
     "collection_names", "sound_names", "weapon_class_names"}

FileOf(category) ==
    CASE category = "monster_class_names" -> "monster_class_names.txt"
      [] category = "monster_names"       -> "monster_names.txt"
      [] category = "projectile_names"    -> "projectile_names.txt"
      [] category = "weapon_names"        -> "weapon_names.txt"
      [] category = "item_names"          -> "item_names.txt"
      [] category = "effect_names"        -> "effect_names.txt"
      [] category = "damage_type_names"   -> "damage_type_names.txt"
      [] category = "collection_names"    -> "collection_names.txt"
      [] category = "sound_names"         -> "sound_names.txt"
      [] category = "weapon_class_names"  -> "weapon_class_names.txt"

SampleLines == {<<>>, <<" ", "\t">>, <<"a">>, <<" ", "b", " ", "c", "\t">>}

NameFiles ==
    UNION {[1..n -> SampleLines] : n \in 0..MaxLines}

FileCategories == {"monster_names", "sound_names", "weapon_class_names"}

\* The --namedb argument: none, or a directory with one name file.
NamePaths ==
    {None} \cup {Some([file |-> FileOf(c), lines |-> f]) :
                    c \in FileCategories, f \in NameFiles}

\* The program started with a --namedb argument; a decoder will look one
\* index up in one category.
InitNames ==
    \E path \in NamePaths, c \in Categories, index \in 0..MaxIndex :
        /\ path # None => c \in {"weapon_class_names"} \cup
                              {d \in FileCategories : FileOf(d) = path[1].file}
        /\ input = Cursor(<<>>)
        /\ namedbs = DefaultNameDbs
        /\ call = [op |-> "main", namedb |-> path, category |-> c, index |-> index]
        /\ pc = "start"
        /\ chunks = <<>>
        /\ physics_wad = None
        /\ definitions = <<>>
        /\ result = None
        /\ stdout = <<>>

\* main.rs: let namedbs = NameDbs::new(namedb.as_deref())?
CallNameDbsNew ==
    /\ pc = "start"
    /\ call.op = "main"
    /\ namedbs' = NameDbs_new(call.namedb)
    /\ pc' = "identify"
    /\ UNCHANGED <<input, call, chunks, physics_wad, definitions, result, stdout>>

\* namedbs.<category>.identify(index)
CallIdentify ==
    /\ pc = "identify"
    /\ result' = identify(namedbs[call.category], call.index)
    /\ pc' = "done"
    /\ UNCHANGED <<input, namedbs, call, chunks, physics_wad, definitions, stdout>>

NextNames == CallNameDbsNew \/ CallIdentify

SpecNames == InitNames /\ [][NextNames]_vars

\* The lines of the name file of the category looked up, if there is one.
LinesOfCategory ==
    IF call.namedb # None /\ call.namedb[1].file = FileOf(call.category)
                          /\ call.category # "weapon_class_names"
    THEN call.namedb[1].lines
    ELSE <<>>

WeaponClassNames ==
    <<"melee", "normal", "dual function", "dual wield", "multipurpose">>

Identified == call.op = "main" /\ pc = "done"

\* C21: identify(index) is the label of line index (from 0) of the name file
\* when that line exists and is not blank, and the number index otherwise;
\* without a --namedb argument every category gives the number, except the
\* weapon classes, which give the five built-in names for 0..4 and the
\* number from 5 on.
C21_Identify ==
    Identified =>
        /\ call.category # "weapon_class_names" =>
              IF call.index < Len(LinesOfCategory)
                    /\ trim(LinesOfCategory[call.index + 1]) # <<>>
              THEN result = [String |-> trim(LinesOfCategory[call.index + 1])]
              ELSE result = [Number |-> call.index]
        /\ call.namedb = None /\ call.category = "weapon_class_names" =>
              IF call.index < 5
              THEN result = [String |-> WeaponClassNames[call.index + 1]]
              ELSE result = [Number |-> call.index]

\* Line 1 (from 0) of monster_names.txt is " b c\t" behind a blank line
\* and before an "a": index 1 is the label "b c".
C21_Witness ==
    /\ Identified
    /\ call.category = "monster_names"
    /\ call.namedb # None
    /\ call.namedb[1].file = "monster_names.txt"
    /\ call.namedb[1].lines = <<<<" ", "\t">>, <<" ", "b", " ", "c", "\t">>, <<"a">>>>
    /\ call.index = 1
    /\ result = [String |-> <<"b", " ", "c">>]


(***************************************************************************)
(* AttackDefinition::read, as MonsterDefinition::read calls it: the melee  *)
(* attack, then the ranged attack from the bytes behind it                 *)
(***************************************************************************)
AttackFirstWords == {<<0, 0>>, <<0, 1>>, <<127, 255>>, <<128, 0>>, <<255, 255>>}

\* The fourteen bytes of the seven fields behind the projectile type.
AttackOtherFields ==
    {[j \in 1..14 |-> 0], [j \in 1..14 |-> 255], [j \in 1..14 |-> 16 * j + 3],
     <<128, 0, 1, 0, 4, 0, 255, 255, 252, 0, 0, 1, 128, 1>>}

AttackSamples == {w \o o : w \in AttackFirstWords, o \in AttackOtherFields}

AttackCuts == {0, 1, 15, 17, 31}

AttackInputs ==
    {m \o r : m \in AttackSamples, r \in AttackSamples}
        \cup {SubSeq(m \o m, 1, n) : m \in AttackSamples, n \in AttackCuts}

AttackNameDbs ==
    {DefaultNameDbs,
     [DefaultNameDbs EXCEPT
         !.projectile_names = [names |-> <<None, Some("rocket")>>]]}

InitAttack ==
    \E d \in AttackInputs, dbs \in AttackNameDbs : Idle(Cursor(d), dbs)

\* melee_attack: AttackDefinition::read(&mut input, namedbs)?, and
\* ranged_attack likewise; a failed read ends the decoding.
CallAttackDefinitionRead ==
    /\ pc \in {"start", "ranged_attack"}
    /\ \E r \in {AttackDefinition_read(input, namedbs)} :
          /\ call' = [op |-> "AttackDefinition::read", pos |-> input.pos]
          /\ IF r.ok
             THEN /\ definitions' = Append(definitions, r.val)
                  /\ input' = r.input
                  /\ result' = IF pc = "start" THEN None ELSE Ok(<<>>)
                  /\ pc' = IF pc = "start" THEN "ranged_attack" ELSE "done"
             ELSE /\ result' = Err(r.err)
                  /\ pc' = "done"
                  /\ UNCHANGED <<definitions, input>>
    /\ UNCHANGED <<namedbs, chunks, physics_wad, stdout>>

NextAttack == CallAttackDefinitionRead

SpecAttack == InitAttack /\ [][NextAttack]_vars

\* The 16-bit word at byte offset off of the input.
WordAt(off) == input.data[off + 1] * 256 + input.data[off + 2]

\* The value a reader of util.rs gives at byte offset off of the input.
ValueAt(reader, off) == RawRead(reader, [input EXCEPT !.pos = off]).val

\* The attack whose sub-record starts at byte offset off, field by field
\* from the byte offsets of its layout.
AttackAt(off) ==
    [projectile_type |-> identify(namedbs.projectile_names, WordAt(off)),
     repetitions     |-> ValueAt("read_optional_16", off + 2),
     error           |-> ValueAt("read_angle", off + 4),
     range           |-> ValueAt("read_world_distance", off + 6),
     attack_sequence |-> ValueAt("read_optional_16", off + 8),
     dx              |-> ValueAt("read_world_distance", off + 10),
     dy              |-> ValueAt("read_world_distance", off + 12),
     dz              |-> ValueAt("read_world_distance", off + 14)]

\* What the k-th call (from 1) made of its sub-record.
AttackReadAsLaidOut(k) ==
    LET off == 16 * (k - 1)
    IN  IF WordAt(off) >= 32768
        THEN definitions[k] = None
        ELSE definitions[k] = Some(AttackAt(off))

AttackRead == call.op = "AttackDefinition::read"

\* C22: AttackDefinition::read yields absent exactly when the word of the
\* projectile type has bit 15 set, whatever the other seven fields hold, and
\* the attack of the eight fields otherwise; either way it takes the 16 bytes
\* of the sub-record, so the ranged attack behind the melee attack is read
\* from bytes 16..31 in both cases.
C22_AttackDefinitionRead ==
    AttackRead =>
        /\ \A k \in 1..Len(definitions) :
              /\ (definitions[k] = None) <=> (WordAt(16 * (k - 1)) >= 32768)
              /\ AttackReadAsLaidOut(k)
        /\ Len(input.data) - call.pos >= 16 =>
              /\ input.pos = call.pos + 16
              /\ Len(definitions) = input.pos \div 16
              /\ pc = "done" => result = Ok(<<>>)

\* An absent melee attack whose other optional fields are present, before
\* a present ranged attack whose other optional fields are absent.
C22_Witness ==
    /\ AttackRead
    /\ pc = "done"
    /\ result = Ok(<<>>)
    /\ input.pos = 32
    /\ SubSeq(input.data, 1, 4) = <<255, 255, 19, 35>>
    /\ definitions[1] = None
    /\ SubSeq(input.data, 17, 20) = <<0, 1, 128, 0>>
    /\ definitions[2] # None
    /\ definitions[2][1].projectile_type = [String |-> "rocket"]
    /\ definitions[2][1].repetitions = None
    /\ definitions[2][1].attack_sequence = None

(***************************************************************************)
(* The eight list decoders on one slice of chunks_exact                    *)
(***************************************************************************)
\* A slice whose 16-bit words are all different and all below 0x8000.
Distinct(n) ==
    [j \in 1..n |-> IF j % 2 = 1 THEN ((j + 1) \div 2) % 128
                                 ELSE 255 - ((j + 1) \div 2)]

\* The slice d with the word at byte offset off replaced by w.
Poke(d, off, w) ==
    [j \in 1..Len(d) |-> IF j = off + 1 THEN w[1]
                         ELSE IF j = off + 2 THEN w[2] ELSE d[j]]

PokeWords == {<<128, 0>>, <<255, 255>>, <<0, 0>>, <<127, 255>>, <<0, 33>>}

\* Slices of the size of the decoder s, as chunks_exact(s.size) hands them
\* to s::read.
RecordInputs(s) ==
    {Payload(p, s.size) : p \in Patterns}
        \cup {Distinct(s.size)}
        \cup {Poke(Distinct(s.size), 2 * k, w) :
                 k \in 0..((s.size \div 2) - 1), w \in PokeWords}

InitRecord ==
    \E s \in ListDecoders :
        \E d \in RecordInputs(s), dbs \in NameDbsChoices : Idle(Cursor(d), dbs)

\* .map(|(i, x)| X::read(x, namedbs, i)) on one slice x.
CallRead(s) ==
    /\ pc = "start"
    /\ Len(input.data) = s.size
    /\ \E index \in 0..1 :
       \E r \in {ReadRecord(s, input, namedbs, index)} :
           /\ call' = [op |-> "read", schema |-> s.id, index |-> index]
           /\ result' = IF r.ok THEN Ok(r.val) ELSE Err(r.err)
           /\ input' = IF r.ok THEN r.input ELSE input
    /\ pc' = "done"
    /\ UNCHANGED <<namedbs, chunks, physics_wad, definitions, stdout>>

NextRecord == \E s \in ListDecoders : CallRead(s)

SpecRecord == InitRecord /\ [][NextRecord]_vars

RecordRead(id) == call.op = "read" /\ call.schema = id /\ pc = "done"

\* The statement of a read function that assigns the field key.
Row(fields, key) == fields[CHOOSE i \in 1..Len(fields) : fields[i][1] = key]

\* The value the statement row gives its field when it reads at byte
\* offset off of the slice.
FieldAt(row, off) ==
    ReadField(row, [data |-> input.data, pos |-> off], namedbs, call.index, <<>>).val[row[1]]

\* The per-trigger fields of m1::TriggerDefinition, each with the byte
\* offsets in the 120-byte record its value comes from for trigger 0 and
\* for trigger 1 (-1: from no byte of the record).
M1TriggerLayout ==
    {<<"ammunition_type", 6, 10>>, <<"rounds_per_magazine", 8, 12>>,
     <<"ticks_per_round", 58, 60>>, <<"recovery_ticks", 66, 68>>,
     <<"charging_ticks", 70, 72>>, <<"recoil_magnitude", 74, 76>>,
     <<"firing_sound", 78, 80>>, <<"click_sound", 82, 84>>,
     <<"reloading_sound", 86, -1>>, <<"charging_sound", 88, 88>>,
     <<"shell_casing_sound", 90, 92>>, <<"sound_activation_range", 94, 96>>,
     <<"projectile_type", 98, 100>>, <<"theta_error", 102, 104>>,
     <<"dx", 106, 110>>, <<"dz", 108, 112>>, <<"burst_count", 114, 116>>}

\* The reading statement of a per-trigger field (that of trigger 0).
TriggerRow(f) == Row(M1WeaponDefinitionFields, "triggers[0]." \o f)

\* The value of the per-trigger field f decoded at byte offset off.
TriggerFieldAt(f, off) == FieldAt(TriggerRow(f), off)

M1WeaponRead == RecordRead("m1::WeaponDefinition") /\ result.ok

C24_ReadsDeclaredSize ==
    (call.op = "read" /\ pc = "done") =>
        /\ result.ok
        /\ input.pos = StatedRecordSize(call.schema)
        /\ input.pos = Len(input.data)
        /\ SchemaOf(call.schema).size = StatedRecordSize(call.schema)

\* A newer monster record of 78 different words, read to its last byte.
C24_Witness ==
    /\ RecordRead("m2::MonsterDefinition")
    /\ input.data = Distinct(156)
    /\ result.ok
    /\ input.pos = 156

PhysicsRead ==
    call.op = "PhysicsDefinitions::read" /\ pc = "done" /\ result.ok

\* The names of the fields of a block of the older generation.
M1PhysicsFieldNames ==
    {M1PhysicsDefinitionFields[i][1] : i \in 1..Len(M1PhysicsDefinitionFields)}

\* The 16.16 value at byte offset off of the payload.
FixedAt(off) == read_fx_16_16([data |-> input.data, pos |-> off]).val

\* A block decoded from the payload bytes starting at byte offset off: the
\* k-th field of the generation from the four bytes at off + 4 * (k - 1).
BlockAt(block, off) ==
    \A k \in 1..Len(PhysicsFields(call.schema)) :
        block[PhysicsFields(call.schema)[k][1]] = FixedAt(off + 4 * (k - 1))

\* C25 as stated: a block has 24 fields in the older generation and 25 in
\* the newer.
C25_TwentyFourFields ==
    PhysicsRead =>
        LET n == IF call.schema = "m1" THEN 24 ELSE 25
        IN  /\ Cardinality(DOMAIN result.val.walking) = n
            /\ Cardinality(DOMAIN result.val.running) = n
            /\ input.pos = 2 * 4 * n

\* C25, amended: a movement profile is decoded as the walking block and the
\* running block behind it; a block has 25 fields of 16.16 fixed point in
\* the older generation and those 25 and splash height, 26, in the newer.
C25_TwoBlocks ==
    PhysicsRead =>
        LET n == IF call.schema = "m1" THEN 25 ELSE 26
        IN  /\ input.pos = 2 * 4 * n
            /\ Cardinality(DOMAIN result.val.walking) = n
            /\ DOMAIN result.val.running = DOMAIN result.val.walking
            /\ DOMAIN result.val.walking =
                  IF call.schema = "m1" THEN M1PhysicsFieldNames
                  ELSE M1PhysicsFieldNames \cup {"splash_height"}
            /\ "splash_height" \notin M1PhysicsFieldNames
            /\ BlockAt(result.val.walking, 0)
            /\ BlockAt(result.val.running, 4 * n)

\* A newer profile of 208 bytes: the walking block ends with the half
\* camera separation from bytes 100..103, the running block starts with the
\* maximum forward velocity from bytes 104..107.
C25_Witness ==
    /\ PhysicsRead
    /\ call.schema = "m2"
    /\ input.data = Payload("ramp", 208)
    /\ result.val.walking["splash_height"] = FixedAt(96)
    /\ result.val.walking["half_camera_separation"] = FixedAt(100)
    /\ result.val.running["maximum_forward_velocity"] = FixedAt(104)
    /\ FixedAt(104) # FixedAt(0)
    /\ input.pos = 208

(***************************************************************************)
(* Chunk::read_m2_chunks on one subfile, iteration by iteration            *)
(***************************************************************************)
\* The model keeps the first MaxIterations chunks of the list the loop
\* builds; the loop itself goes on as the code does.
MaxIterations == 6

\* Values of the next-offset fields: none, the chunks of the subfile, the
\* end of the subfile, past its end, and offsets inside the first chunk.
StreamOffsets == {0, 19, 37, 53, 100, 1, 16}

\* The three chunks at the offsets 0, 19 and 37 with the next-offset fields
\* nx.
ChunkStream(nx) ==
    EncodeM2Records(
        <<M2Record(M2_MONSTER_PHYSICS_TAG, nx[1], Zeros(4), Payload("ramp", 3)),
          M2Record(M2_EFFECT_PHYSICS_TAG, nx[2], Zeros(4), Payload("low", 2)),
          M2Record(M2_PHYSICS_PHYSICS_TAG, nx[3], Zeros(4), <<>>)>>)

ChunkStreams ==
    {ChunkStream(nx) : nx \in StreamOffsets \X StreamOffsets \X StreamOffsets}

InitChunks == \E d \in ChunkStreams : Idle(Cursor(d), DefaultNameDbs)

\* let mut chunks = vec![]; let mut next_offset = 0;
CallReadM2Chunks ==
    /\ pc = "start"
    /\ call' = [op |-> "read_m2_chunks", next_offset |-> Zero32]
    /\ pc' = "loop"
    /\ UNCHANGED <<input, namedbs, chunks, physics_wad, definitions, result, stdout>>

\* One iteration of the loop of read_m2_chunks: break with Ok(chunks), an
\* error, or one more chunk and its next offset.
ReadM2ChunksLoop ==
    /\ pc = "loop"
    /\ \E r \in {read_m2_chunk(input, call.next_offset, Len(chunks))} :
           IF ~r.ok
           THEN /\ result' = Err(r.err)
                /\ pc' = "done"
                /\ UNCHANGED <<input, call, chunks>>
           ELSE IF r.val = None
           THEN /\ result' = Ok(chunks)
                /\ pc' = "done"
                /\ UNCHANGED <<input, call, chunks>>
           ELSE /\ chunks' = IF Len(chunks) < MaxIterations
                             THEN Append(chunks, r.val[1].chunk)
                             ELSE chunks
                /\ input' = r.input
                /\ call' = [call EXCEPT !.next_offset = r.val[1].next_offset]
                /\ UNCHANGED <<pc, result>>
    /\ UNCHANGED <<namedbs, physics_wad, definitions, stdout>>

NextChunks == CallReadM2Chunks \/ ReadM2ChunksLoop

\* The call is sequential code that keeps running: a step that can be taken
\* is taken.
SpecChunks == InitChunks /\ [][NextChunks]_vars /\ WF_vars(NextChunks)

\* C26: read_m2_chunks returns, a chunk list or an error, after finitely
\* many iterations, whatever the next-offset fields hold.
C26_ReadM2ChunksTerminates == <>(pc = "done")

\* m2::convert_physics has ended on a WAD whose directory scan found no
\* subfile.
M2DoneOnEmptyWad ==
    /\ call.op = "convert_physics"
    /\ call.gen = "m2"
    /\ pc = "done"
    /\ physics_wad # None
    /\ physics_wad[1].files = <<>>

\* C27: m2::convert_physics on a WAD with no readable directory slot ends
\* with an ordinary error result; it does not index files[0] of an empty
\* subfile list.
C27_NoSubfileIsAnError ==
    M2DoneOnEmptyWad =>
        /\ ~result.ok
        /\ result.err[1] # "index out of bounds: the len is 0 but the index is 0"

\* A monster, effect or projectile record has been decoded.
SpriteRecordRead ==
    /\ call.op = "read"
    /\ pc = "done"
    /\ SchemaOf(call.schema).what \in {"monster", "effect", "projectile"}
    /\ result.ok

\* C28: the first word x of a monster, effect or projectile record gives
\* collection and colour table: both absent when bit 0x8000 of x is set;
\* otherwise the collection is named from index c = x mod 32 and the clut
\* is x div 32, with 32 * clut + c = x, c in 0..31 and clut in 0..1023.
C28_CollectionAndClut ==
    SpriteRecordRead =>
        IF WordAt(0) >= 32768
        THEN result.val["collection"] = None /\ result.val["clut"] = None
        ELSE /\ result.val["collection"] # None
             /\ result.val["clut"] # None
             /\ result.val["clut"][1] \in 0..1023
             /\ result.val["clut"][1] = WordAt(0) \div 32
             /\ \E c \in 0..31 :
                   /\ c = WordAt(0) % 32
                   /\ 32 * result.val["clut"][1] + c = WordAt(0)
                   /\ result.val["collection"][1] = identify(namedbs.collection_names, c)

\* The first word 0x0021 in a newer projectile record: collection 1, which
\* the name file calls "weapons in hand", and clut 1.
C28_Witness ==
    /\ SpriteRecordRead
    /\ call.schema = "m2::ProjectileDefinition"
    /\ WordAt(0) = 33
    /\ result.val["collection"] = Some([String |-> "weapons in hand"])
    /\ result.val["clut"] = Some(1)

\* C29: in every older weapon record trigger 1's reloading sound is absent
\* and trigger 1's charging sound is trigger 0's; the record has one
\* reloading-sound word (bytes 86..87) and one charging-sound word (bytes
\* 88..89), both decoded into trigger 0, and the word behind them is
\* trigger 0's shell casing sound.
C29_SingleSoundWords ==
    RecordRead("m1::WeaponDefinition") =>
        /\ result.ok
        /\ result.val["triggers[1].reloading_sound"] = None
        /\ result.val["triggers[1].charging_sound"] =
              result.val["triggers[0].charging_sound"]
        /\ result.val["triggers[0].reloading_sound"] =
              MapIdentify(ValueAt("read_optional_16", 86), namedbs.sound_names)
        /\ result.val["triggers[0].charging_sound"] =
              MapIdentify(ValueAt("read_optional_16", 88), namedbs.sound_names)
        /\ result.val["triggers[0].shell_casing_sound"] =
              MapIdentify(ValueAt("read_optional_16", 90), namedbs.sound_names)

\* The record of 60 different words with the word at bytes 88..89 replaced
\* by 0: both charging sounds are sound 0, "startup" in the name file, the
\* reloading sound of trigger 0 is the word at bytes 86..87, that of
\* trigger 1 is absent.
C29_Witness ==
    /\ RecordRead("m1::WeaponDefinition")
    /\ input.data = Poke(Distinct(120), 88, <<0, 0>>)
    /\ result.ok
    /\ result.val["triggers[0].charging_sound"] = Some([String |-> "startup"])
    /\ result.val["triggers[1].charging_sound"] = Some([String |-> "startup"])
    /\ result.val["triggers[0].reloading_sound"] = Some([Number |-> 44 * 256 + 211])
    /\ result.val["triggers[1].reloading_sound"] = None

\* C30: the subfile count of the header has no part in the directory scan:
\* WADs that differ in it alone give the same subfile list, that of the
\* slots with a readable offset, also when the list is longer than the
\* count; the count is kept in the Wad as read.
C30_WadCountIgnored ==
    (call.op = "convert_physics" /\ call.gen = "m2" /\ pc = "done") =>
        \A n \in CountedSlots, c \in WadCounts :
            input.data = CountFile(n, c) =>
                /\ physics_wad # None
                /\ physics_wad[1].files = SlotChunks(n)
                /\ physics_wad[1].wad_count = c

\* Three subfiles are read from a WAD that declares one.
C30_Witness ==
    /\ call.op = "convert_physics"
    /\ call.gen = "m2"
    /\ pc = "done"
    /\ input.data = CountFile(3, 1)
    /\ input.data[77] * 256 + input.data[78] = 1
    /\ physics_wad # None
    /\ Len(physics_wad[1].files) = 3
    /\ physics_wad[1].files = ShortSubfileChunks

====
